---- MODULE Spec2Model ----
(***************************************************************************)
(* A state-machine model of the OCE Shopify app: the orders/create and     *)
(* app/uninstalled webhooks, the settings and email-settings routes, the   *)
(* domain purchase gate and the Cloudflare DNS provisioning/verification   *)
(* routines.  Every await of a handler is one step, so that handlers for   *)
(* the same tenant interleave as they do on the Node event loop.           *)
(***************************************************************************)
EXTENDS Integers, Sequences, FiniteSets, TLC

VARIABLES
  db,      \* the relational store: one field per Prisma model
  runs,    \* the orders/create deliveries: position and locals of each
  unin,    \* the app/uninstalled handler: position and tenant
  oce,     \* the attribution backend: sendOrder calls seen per order
  req,     \* the email-infrastructure request being served: position and locals
  cf,      \* the Cloudflare account: the HTTP calls issued and the zone's records
  supa     \* the tables of the serverless function's own store

vars == <<db, runs, unin, oce, req, cf, supa>>

\* The state of the email infrastructure, which the order flow leaves alone.
emailVars == <<req, cf, supa>>

----------------------------------------------------------------------------
(* Bounds of the model *)

NumDeliveries == 2

----------------------------------------------------------------------------
(* Values *)

Shops == {"s1", "s2"}
\* The tenant whose webhooks and requests arrive; the other one's rows are the
\* bystander data that no handler for the first may touch.
Tenants == {"s1"}
Bystanders == Shops \ Tenants
Orders == {"1001"}
Procs == 1..NumDeliveries
NoRow == [none |-> TRUE]
Null == "null"
NoCommission == -1
ApiKeys == {"", "key"}

OrderKeys == Shops \X Orders

\* What POST /orders of the attribution backend may answer on success.
OceResults ==
  { [order_id |-> "A1", commission |-> 5],
    [order_id |-> "", commission |-> 0] }

\* The outcome of a sendOrder call that raised.
Thrown == [thrown |-> TRUE]

\* JavaScript's `x || null` on a string: the empty string becomes null.
StrOrNull(x) == IF x = "" THEN Null ELSE x

\* JavaScript's `x || null` on a number: 0 and undefined become null.
NumOrNull(x) == IF x = 0 THEN NoCommission ELSE x

\* No email-infrastructure request is being served.
IdleReq == [op |-> "none", pc |-> "idle"]

\* No call has reached the Cloudflare API.
IdleCf == [calls |-> <<>>]

\* The serverless function's store holds nothing.
IdleSupa == [email_settings |-> NoRow, email_domains |-> {}]

----------------------------------------------------------------------------
(* The store *)

\* A row of an entity that the order flow does not read: only its owner matters.
TenantRow(s) == [shop |-> s]

SessionRow(s) == [id |-> "offline_" \o s, shop |-> s, accessToken |-> "tok"]

\* prisma.<model>.deleteMany({ where: { shop } }) on a table kept as a set of rows.
DeleteManySet(table, s) == { r \in table : r.shop # s }

\* The same on a table with one row per key (shop, or shop and order id).
DeleteManyByShop(table, s) == [k \in DOMAIN table |-> IF k = s THEN NoRow ELSE table[k]]

DeleteManyOrders(table, s) ==
  [k \in DOMAIN table |-> IF k[1] = s THEN NoRow ELSE table[k]]

\* The tables in the order the uninstall handler purges them.
PurgeOrder ==
  << "emailConversation", "emailAccount", "emailDomain", "outreachCampaign",
     "emailSettings", "oceSettings", "orderSync", "videoAsset", "session" >>

PurgeTable(d, name, s) ==
  CASE name = "emailConversation" -> [d EXCEPT !.emailConversation = DeleteManySet(@, s)]
    [] name = "emailAccount"      -> [d EXCEPT !.emailAccount = DeleteManySet(@, s)]
    [] name = "emailDomain"       -> [d EXCEPT !.emailDomain = DeleteManySet(@, s)]
    [] name = "outreachCampaign"  -> [d EXCEPT !.outreachCampaign = DeleteManySet(@, s)]
    [] name = "emailSettings"     -> [d EXCEPT !.emailSettings = DeleteManyByShop(@, s)]
    [] name = "oceSettings"       -> [d EXCEPT !.oceSettings = DeleteManyByShop(@, s)]
    [] name = "orderSync"         -> [d EXCEPT !.orderSync = DeleteManyOrders(@, s)]
    [] name = "videoAsset"        -> [d EXCEPT !.videoAsset = DeleteManySet(@, s)]
    [] name = "session"           -> [d EXCEPT !.session = DeleteManyByShop(@, s)]

\* Whether tenant s owns a row in any table.
HasRows(d, s) ==
  \/ \E r \in d.emailConversation \cup d.emailAccount \cup d.emailDomain
              \cup d.outreachCampaign \cup d.videoAsset : r.shop = s
  \/ d.emailSettings[s] # NoRow
  \/ d.oceSettings[s] # NoRow
  \/ d.session[s] # NoRow
  \/ \E k \in DOMAIN d.orderSync : k[1] = s /\ d.orderSync[k] # NoRow

HasSession(d, s) == d.session[s] # NoRow /\ d.session[s].accessToken # ""

----------------------------------------------------------------------------
(* handleOrderCreated, web/backend/routes/webhooks.js *)

\* A delivery not yet received.  calls and writes count the sendOrder calls and
\* the OrderSync writes the run has made.
IdleRun ==
  [ pc |-> "idle", shop |-> Null, order |-> Null, response |-> 0,
    settings |-> NoRow, syncId |-> 0, sent |-> NoRow,
    calls |-> 0, writes |-> 0, result |-> [status |-> "none"] ]

NotConfiguredIgnoresToggle(settings) == settings = NoRow \/ settings.apiKey = ""

\* `!settings || !settings.apiKey || !settings.webhookEnabled`
NotConfigured(settings) ==
  settings = NoRow \/ settings.apiKey = "" \/ ~settings.webhookEnabled

AlreadyProcessedWrongStatus(existing) == existing # NoRow /\ existing.status = "pending"

\* `existing && existing.status === "sent"`
AlreadyProcessed(existing) == existing # NoRow /\ existing.status = "sent"

\* prisma.orderSync.upsert: a new row when the key has none, else the same row
\* set back to "pending".
UpsertPending(table, key, id) ==
  IF table[key] = NoRow
    THEN [table EXCEPT ![key] =
            [ id |-> id, status |-> "pending", oceOrderId |-> Null,
              commission |-> NoCommission, errorMessage |-> Null ]]
    ELSE [table EXCEPT ![key].status = "pending"]

RowWithIdNeverHits(table, id) == {}

\* The id of the row that holds `id`, if any: prisma.orderSync.update is by id.
RowWithId(table, id) == { k \in DOMAIN table : table[k] # NoRow /\ table[k].id = id }

Key(p) == <<runs[p].shop, runs[p].order>>

\* POST /webhooks/orders/create: 401 on a bad signature, else 200 and the
\* handler starts.  Deliveries are numbered in the order they are accepted.
Deliver(p, s, o, hmacOk) ==
  /\ runs[p].pc = "idle"
  /\ \A q \in Procs : q < p => runs[q].pc # "idle"
  /\ runs' = [runs EXCEPT ![p] =
       IF hmacOk
         THEN [@ EXCEPT !.pc = "settings", !.shop = s, !.order = o, !.response = 200]
         ELSE [@ EXCEPT !.response = 401]]
  /\ UNCHANGED <<db, unin, oce, emailVars>>

\* Step 1: load the tenant's settings; skip when not configured.
ReadSettings(p) ==
  /\ runs[p].pc = "settings"
  /\ LET settings == db.oceSettings[runs[p].shop] IN
     runs' = [runs EXCEPT ![p] =
       IF NotConfigured(settings)
         THEN [@ EXCEPT !.pc = "done", !.settings = settings,
                        !.result = [status |-> "skipped", reason |-> "not_configured"]]
         ELSE [@ EXCEPT !.pc = "existing", !.settings = settings]]
  /\ UNCHANGED <<db, unin, oce, emailVars>>

\* Step 2: skip when the order's row already has status "sent".
ReadExisting(p) ==
  /\ runs[p].pc = "existing"
  /\ LET existing == db.orderSync[Key(p)] IN
     runs' = [runs EXCEPT ![p] =
       IF AlreadyProcessed(existing)
         THEN [@ EXCEPT !.pc = "done",
                        !.result = [status |-> "skipped", reason |-> "already_processed"]]
         ELSE [@ EXCEPT !.pc = "upsert"]]
  /\ UNCHANGED <<db, unin, oce, emailVars>>

\* Step 3: upsert the row as "pending" and keep its id.
Upsert(p) ==
  /\ runs[p].pc = "upsert"
  /\ LET table == UpsertPending(db.orderSync, Key(p), db.nextId + 1) IN
     /\ db' = [db EXCEPT !.orderSync = table,
                         !.nextId = IF db.orderSync[Key(p)] = NoRow THEN db.nextId + 1 ELSE @]
     /\ runs' = [runs EXCEPT ![p].pc = "send", ![p].syncId = table[Key(p)].id,
                             ![p].writes = @ + 1]
  /\ UNCHANGED <<unin, oce, emailVars>>

\* Step 6: oceApi.sendOrder answers with a result or raises.
SendOrder(p) ==
  /\ runs[p].pc = "send"
  /\ \E outcome \in OceResults \cup {Thrown} :
       /\ runs' = [runs EXCEPT ![p].pc = IF outcome = Thrown THEN "markFailed" ELSE "markSent",
                               ![p].sent = outcome, ![p].calls = @ + 1]
       /\ oce' = [oce EXCEPT !.attempts[Key(p)] = @ + 1,
                             !.received[Key(p)] = IF outcome = Thrown THEN @ ELSE @ + 1]
  /\ UNCHANGED <<db, unin, emailVars>>

\* Step 7: update the row by id to "sent"; when the row is gone the update
\* raises inside the try block and the catch block runs.
MarkSent(p) ==
  /\ runs[p].pc = "markSent"
  /\ LET hit == RowWithId(db.orderSync, runs[p].syncId) IN
     IF hit # {}
       THEN /\ db' = [db EXCEPT !.orderSync = [k \in DOMAIN @ |->
                        IF k \in hit
                          THEN [@[k] EXCEPT !.status = "sent",
                                            !.oceOrderId = StrOrNull(runs[p].sent.order_id),
                                            !.commission = NumOrNull(runs[p].sent.commission)]
                          ELSE @[k]]]
            /\ runs' = [runs EXCEPT ![p].pc = "done", ![p].writes = @ + 1,
                          ![p].result = [status |-> "sent", reason |-> ""]]
       ELSE /\ runs' = [runs EXCEPT ![p].pc = "markFailed"]
            /\ UNCHANGED db
  /\ UNCHANGED <<unin, oce, emailVars>>

\* Step 8: update the row by id to "failed"; when the row is gone the update
\* raises out of the handler and the route logs it.
MarkFailed(p) ==
  /\ runs[p].pc = "markFailed"
  /\ LET hit == RowWithId(db.orderSync, runs[p].syncId) IN
     IF hit # {}
       THEN /\ db' = [db EXCEPT !.orderSync = [k \in DOMAIN @ |->
                        IF k \in hit
                          THEN [@[k] EXCEPT !.status = "failed", !.errorMessage = "err"]
                          ELSE @[k]]]
            /\ runs' = [runs EXCEPT ![p].pc = "done", ![p].writes = @ + 1,
                          ![p].result = [status |-> "failed", reason |-> "err"]]
       ELSE /\ runs' = [runs EXCEPT ![p].pc = "done",
                          ![p].result = [status |-> "threw", reason |-> "P2025"]]
            /\ UNCHANGED db
  /\ UNCHANGED <<unin, oce, emailVars>>

----------------------------------------------------------------------------
(* updateApiKey and updateSettings, web/backend/routes/settings.js *)

\* A row created with `create: { shop }` or by an upsert takes the schema
\* defaults for the other fields.
DefaultOceSettings == [apiKey |-> "", webhookEnabled |-> TRUE]

UpsertOceSettings(table, s, field, value) ==
  [table EXCEPT ![s] =
     IF @ = NoRow THEN [DefaultOceSettings EXCEPT ![field] = value]
                  ELSE [@ EXCEPT ![field] = value]]

\* PUT /api/settings/api-key, behind the auth middleware.
UpdateApiKey(s, apiKey) ==
  /\ HasSession(db, s)
  /\ db' = [db EXCEPT !.oceSettings = UpsertOceSettings(@, s, "apiKey", apiKey)]
  /\ UNCHANGED <<runs, unin, oce, emailVars>>

\* PUT /api/settings with the webhookEnabled toggle, behind the auth middleware.
UpdateSettings(s, webhookEnabled) ==
  /\ HasSession(db, s)
  /\ db' = [db EXCEPT !.oceSettings = UpsertOceSettings(@, s, "webhookEnabled", webhookEnabled)]
  /\ UNCHANGED <<runs, unin, oce, emailVars>>

----------------------------------------------------------------------------
(* POST /webhooks/app/uninstalled, web/server.js *)

\* pc 0: installed, no uninstall received; 1..9: the next table to purge;
\* 10: purge over.  The platform sends app/uninstalled once per installation.
IdleUninstall == [pc |-> 0, shop |-> Null, response |-> 0]

Purged == Len(PurgeOrder) + 1

\* 401 on a bad signature, else 200 and the purge starts.
UninstallStart(s, hmacOk) ==
  /\ unin.pc = 0
  /\ unin' = IF hmacOk
               THEN [unin EXCEPT !.pc = 1, !.shop = s, !.response = 200]
               ELSE [unin EXCEPT !.response = 401]
  /\ UNCHANGED <<db, runs, oce, emailVars>>

\* One deleteMany of the purge; the handler ends after the last one.
UninstallStep ==
  /\ unin.pc \in 1..Len(PurgeOrder)
  /\ db' = PurgeTable(db, PurgeOrder[unin.pc], unin.shop)
  /\ unin' = [unin EXCEPT !.pc = @ + 1]
  /\ UNCHANGED <<runs, oce, emailVars>>

UninstallEnds == unin.pc = Len(PurgeOrder) /\ unin'.pc = Purged

----------------------------------------------------------------------------
(* Specifications *)

\* A row another tenant's earlier order left behind.
SentRow(id) ==
  [ id |-> id, status |-> "sent", oceOrderId |-> "B7", commission |-> 3,
    errorMessage |-> Null ]

InitDb ==
  [ oceSettings       |-> [s \in Shops |->
                            IF s \in Tenants THEN DefaultOceSettings
                            ELSE [apiKey |-> "key", webhookEnabled |-> TRUE]],
    orderSync         |-> [k \in OrderKeys |->
                            IF k[1] \in Tenants THEN NoRow ELSE SentRow(1)],
    emailSettings     |-> [s \in Shops |-> TenantRow(s)],
    emailDomain       |-> { TenantRow(s) : s \in Shops },
    emailAccount      |-> { TenantRow(s) : s \in Shops },
    outreachCampaign  |-> { TenantRow(s) : s \in Shops },
    emailConversation |-> { TenantRow(s) : s \in Shops },
    videoAsset        |-> { TenantRow(s) : s \in Shops },
    session           |-> [s \in Shops |-> SessionRow(s)],
    nextId            |-> 1 ]

\* Both tenants installed (the OAuth callback stored the session and the
\* default settings row), no order received yet.
InitOrders ==
  /\ db = InitDb
  /\ runs = [p \in Procs |-> IdleRun]
  /\ unin = IdleUninstall
  /\ oce = [attempts |-> [k \in OrderKeys |-> 0], received |-> [k \in OrderKeys |-> 0]]
  /\ req = IdleReq
  /\ cf = IdleCf
  /\ supa = IdleSupa

OrderStep(p) ==
  \/ ReadSettings(p)
  \/ ReadExisting(p)
  \/ Upsert(p)
  \/ SendOrder(p)
  \/ MarkSent(p)
  \/ MarkFailed(p)

NextOrders ==
  \/ \E p \in Procs, s \in Tenants, o \in Orders, hmacOk \in BOOLEAN : Deliver(p, s, o, hmacOk)
  \/ \E p \in Procs : OrderStep(p)
  \/ \E s \in Tenants, apiKey \in ApiKeys : UpdateApiKey(s, apiKey)
  \/ \E s \in Tenants, webhookEnabled \in BOOLEAN : UpdateSettings(s, webhookEnabled)
  \/ \E s \in Tenants, hmacOk \in BOOLEAN : UninstallStart(s, hmacOk)
  \/ UninstallStep

SpecOrders == InitOrders /\ [][NextOrders]_vars

\* No handler of the order flow is between its first and its last await.
Quiescent == \A p \in Procs : runs[p].pc \in {"idle", "done"}

\* The same handlers with deliveries that do not overlap: delivery p + 1 is
\* accepted after delivery p has ended.
NextOrdersSeq ==
  \/ \E p \in Procs, s \in Tenants, o \in Orders, hmacOk \in BOOLEAN :
       Quiescent /\ Deliver(p, s, o, hmacOk)
  \/ \E p \in Procs : OrderStep(p)
  \/ \E s \in Tenants, apiKey \in ApiKeys : UpdateApiKey(s, apiKey)
  \/ \E s \in Tenants, webhookEnabled \in BOOLEAN : UpdateSettings(s, webhookEnabled)

SpecOrdersSeq == InitOrders /\ [][NextOrdersSeq]_vars

----------------------------------------------------------------------------
(* Claims on the order webhook and the uninstall webhook *)

SameOrder(p, q) == runs[p].shop = runs[q].shop /\ runs[p].order = runs[q].order

ReadConfigured(p) ==
  /\ runs[p].settings # NoRow
  /\ runs[p].settings.apiKey # ""
  /\ runs[p].settings.webhookEnabled

SkippedAs(p, reason) ==
  runs[p].result = [status |-> "skipped", reason |-> reason]

\* C1 as stated: two runs for the same (shop, order id), one after the other,
\* for a tenant with an API key and the webhook enabled, make exactly one
\* sendOrder call in total and the second is skipped as already processed.
C1TwoRunsOneCall ==
  \A p, q \in Procs :
    ( /\ p < q /\ SameOrder(p, q)
      /\ runs[p].pc = "done" /\ runs[q].pc = "done"
      /\ ReadConfigured(p) /\ ReadConfigured(q) )
    => /\ SkippedAs(q, "already_processed")
       /\ runs[p].calls + runs[q].calls = 1

\* C1 amended: when the first of two successive runs ended with status "sent",
\* the second makes no sendOrder call (one call in total), is skipped as
\* already processed and writes nothing: the row keeps the order id and the
\* commission the first run stored.
C1SecondRunAfterSentSkips ==
  \A p, q \in Procs :
    ( /\ p < q /\ SameOrder(p, q)
      /\ runs[p].pc = "done" /\ runs[p].result.status = "sent"
      /\ runs[q].pc = "done" /\ ReadConfigured(q) )
    => /\ SkippedAs(q, "already_processed")
       /\ runs[p].calls + runs[q].calls = 1
       /\ runs[q].writes = 0
       /\ LET row == db.orderSync[<<runs[p].shop, runs[p].order>>] IN
            /\ row # NoRow
            /\ row.status = "sent"
            /\ row.oceOrderId = StrOrNull(runs[p].sent.order_id)
            /\ row.commission = NumOrNull(runs[p].sent.commission)

C1Witness ==
  \E p, q \in Procs :
    /\ p < q /\ SameOrder(p, q)
    /\ runs[p].pc = "done" /\ runs[p].result.status = "sent"
    /\ runs[q].pc = "done" /\ SkippedAs(q, "already_processed")

\* C2: the attribution backend never receives more than one successful
\* sendOrder for the same (shop, order id), whatever the interleaving of the
\* runs.
C2NoDuplicateSubmission == \A k \in OrderKeys : oce.received[k] <= 1

\* C3: a run that found no Settings row, an empty API key or the webhook
\* disabled ends as skipped/not_configured, having made no sendOrder call and
\* no OrderSync write.
C3NotConfiguredSkips ==
  \A p \in Procs :
    ( /\ runs[p].pc \notin {"idle", "settings"}
      /\ ~ReadConfigured(p) )
    => /\ runs[p].pc = "done"
       /\ SkippedAs(p, "not_configured")
       /\ runs[p].calls = 0
       /\ runs[p].writes = 0

C3Witness ==
  \E p, q \in Procs :
    /\ runs[p].pc = "done" /\ SkippedAs(p, "not_configured")
    /\ runs[p].settings # NoRow /\ runs[p].settings.apiKey # ""
    /\ ~runs[p].settings.webhookEnabled
    /\ runs[q].pc = "done" /\ SkippedAs(q, "not_configured")
    /\ runs[q].settings = NoRow

\* C4: when the uninstall handler for tenant T ends, no table holds a row of T.
C4UninstallPurgesAll == [][UninstallEnds => ~HasRows(db', unin.shop)]_vars

----------------------------------------------------------------------------
(* maskToken, web/backend/routes/email-settings.js *)

\* A credential is a JavaScript string, kept as the sequence of its characters.
\* MaskChar stands for the bullet U+2022, one UTF-16 unit like the others.
MaskChar == "*"
Chars == {"a", "b", MaskChar}

\* The numbers of maskToken.
MaskThreshold == 12
KeepHead == 6
MaskLen == 20
KeepTail == 4

\* Bounds of the credentials the function is applied to: three runs of one
\* character each.
MaxHead == 6
MaxMid == 20
MaxTail == 4

\* String.prototype.repeat on a one-character string.
Repeat(c, n) == [i \in 1..n |-> c]

\* String.prototype.slice(0, n).
SliceHead(s, n) == SubSeq(s, 1, IF n < Len(s) THEN n ELSE Len(s))

\* String.prototype.slice(-n).
SliceTail(s, n) == SubSeq(s, IF Len(s) > n THEN Len(s) - n + 1 ELSE 1, Len(s))

MaskTokenKeepsShort(token) ==
  IF Len(token) <= MaskThreshold THEN token
  ELSE SliceHead(token, KeepHead) \o Repeat(MaskChar, MaskLen) \o SliceTail(token, KeepTail)

maskToken(token) ==
  IF token = <<>> THEN <<>>
  ELSE IF Len(token) <= MaskThreshold THEN Repeat(MaskChar, Len(token))
  ELSE SliceHead(token, KeepHead) \o Repeat(MaskChar, MaskLen) \o SliceTail(token, KeepTail)

MaskInputs ==
  { Repeat(c1, n1) \o Repeat(c2, n2) \o Repeat(c3, n3) :
      c1 \in Chars, c2 \in Chars, c3 \in Chars,
      n1 \in 0..MaxHead, n2 \in 0..MaxMid, n3 \in 0..MaxTail }

InitMask ==
  /\ db = InitDb
  /\ runs = [p \in Procs |-> IdleRun]
  /\ unin = IdleUninstall
  /\ oce = [attempts |-> [k \in OrderKeys |-> 0], received |-> [k \in OrderKeys |-> 0]]
  /\ cf = IdleCf
  /\ supa = IdleSupa
  /\ \E token \in MaskInputs :
       req = [op |-> "maskToken", pc |-> "call", token |-> token, reply |-> <<>>]

MaskTokenCall ==
  /\ req.op = "maskToken" /\ req.pc = "call"
  /\ req' = [req EXCEPT !.pc = "return", !.reply = maskToken(req.token)]
  /\ UNCHANGED <<db, runs, unin, oce, cf, supa>>

NextMask == MaskTokenCall

SpecMask == InitMask /\ [][NextMask]_vars

\* A credential that already has the shape of a masked one.
AlreadyMasked(t) ==
  \/ Len(t) <= 12 /\ \A i \in 1..Len(t) : t[i] = MaskChar
  \/ Len(t) = 30 /\ \A i \in 7..26 : t[i] = MaskChar

MaskReturned == req.op = "maskToken" /\ req.pc = "return"

----------------------------------------------------------------------------
(* getEmailSettings and updateEmailSettings, web/backend/routes/email-settings.js *)

RawShort == <<"s", "e", "c", "r", "e", "t">>
RawLong ==
  <<"c", "f", "_", "t", "o", "k", "1", "2", "3", "4", "5", "6", "w", "x", "y", "z">>

\* What a credential column may hold: nothing, a raw credential, or the masked
\* text the settings form was loaded with and saved back.
Credentials == {<<>>, RawShort, RawLong, maskToken(RawShort), maskToken(RawLong)}

AccountId == <<"i", "d">>
FirstName == <<"A", "n", "n">>

SecretFields ==
  {"cloudflareApiToken", "smartleadApiKey", "gmailAccessToken", "gmailRefreshToken"}

allowedFields ==
  << "cloudflareAccountId", "cloudflareApiToken", "smartleadApiKey",
     "whoisFirstName", "whoisLastName", "whoisAddress1", "whoisCity",
     "whoisState", "whoisZip", "whoisCountry", "whoisPhone", "whoisEmail" >>

Range(seq) == { seq[i] : i \in DOMAIN seq }

\* The row prisma.emailSettings.create({ data: { shop } }) inserts: the schema
\* defaults.  A nullable column that is null is kept as the empty string.
DefaultEmailSettings(s) ==
  [ shop |-> s, cloudflareAccountId |-> <<>>, cloudflareApiToken |-> <<>>,
    smartleadApiKey |-> <<>>, gmailAccessToken |-> <<>>, gmailRefreshToken |-> <<>>,
    whoisFirstName |-> <<>>, whoisLastName |-> <<>>, whoisAddress1 |-> <<>>,
    whoisCity |-> <<>>, whoisState |-> <<>>, whoisZip |-> <<>>,
    whoisCountry |-> <<"U", "S">>, whoisPhone |-> <<>>, whoisEmail |-> <<>> ]

\* The object getEmailSettings returns; JSON drops the two undefined fields.
MaskedSettings(settings) ==
  [ f \in (DOMAIN settings \ {"gmailAccessToken", "gmailRefreshToken"})
            \cup {"hasCloudflare", "hasSmartlead", "hasGmail"} |->
      CASE f = "cloudflareApiToken" -> maskToken(settings.cloudflareApiToken)
        [] f = "smartleadApiKey"    -> maskToken(settings.smartleadApiKey)
        [] f = "hasCloudflare"      -> settings.cloudflareApiToken # <<>>
                                         /\ settings.cloudflareAccountId # <<>>
        [] f = "hasSmartlead"       -> settings.smartleadApiKey # <<>>
        [] f = "hasGmail"           -> settings.gmailRefreshToken # <<>>
        [] OTHER                    -> settings[f] ]

\* GET /api/email/settings: create the row when absent, return it masked.
GetEmailSettings(s) ==
  /\ req.pc = "idle"
  /\ LET settings == IF db.emailSettings[s] = NoRow THEN DefaultEmailSettings(s)
                     ELSE db.emailSettings[s] IN
     /\ db' = [db EXCEPT !.emailSettings[s] = settings]
     /\ req' = [op |-> "getEmailSettings", pc |-> "return", shop |-> s,
                settings |-> MaskedSettings(settings)]
  /\ UNCHANGED <<runs, unin, oce, cf, supa>>

\* The whitelist filter: the allowed fields the caller gave a value for.
Whitelisted(updates) ==
  [ f \in DOMAIN updates \cap Range(allowedFields) |-> updates[f] ]

\* prisma.emailSettings.upsert({ where, create: { shop, ...data }, update: data }).
UpsertEmailSettings(table, s, data) ==
  LET old == IF table[s] = NoRow THEN DefaultEmailSettings(s) ELSE table[s] IN
  [table EXCEPT ![s] = [f \in DOMAIN old |-> IF f \in DOMAIN data THEN data[f] ELSE old[f]]]

\* PUT /api/email/settings: upsert the whitelisted fields and return the row
\* the upsert gave back.
UpdateEmailSettings(s, updates) ==
  /\ req.pc = "idle"
  /\ LET table == UpsertEmailSettings(db.emailSettings, s, Whitelisted(updates)) IN
     /\ db' = [db EXCEPT !.emailSettings = table]
     /\ req' = [op |-> "updateEmailSettings", pc |-> "return", shop |-> s,
                settings |-> table[s]]
  /\ UNCHANGED <<runs, unin, oce, cf, supa>>

\* The response has been sent; the next request is served.
Respond ==
  /\ req.pc = "return"
  /\ req' = IdleReq
  /\ UNCHANGED <<db, runs, unin, oce, cf, supa>>

\* The fields a caller of PUT /api/email/settings may send, one of them off
\* the whitelist, and what each may hold.
PayloadFields ==
  {"cloudflareAccountId", "cloudflareApiToken", "smartleadApiKey", "gmailRefreshToken"}

PayloadValues(f) ==
  IF f = "cloudflareAccountId" THEN {<<>>, AccountId} ELSE Credentials

UpdatePayloads ==
  { u \in UNION { [F -> Credentials \cup {AccountId}] : F \in SUBSET PayloadFields } :
      \A f \in DOMAIN u : u[f] \in PayloadValues(f) }

\* The tenant has no row yet, or a row whose Gmail tokens the OAuth flow filled.
InitEmailSettings ==
  /\ \E row \in {NoRow} \cup
         { [DefaultEmailSettings("s1") EXCEPT !.gmailAccessToken = g,
                                              !.gmailRefreshToken = g] :
             g \in {<<>>, RawLong} } :
       db = [InitDb EXCEPT !.emailSettings["s1"] = row]
  /\ runs = [p \in Procs |-> IdleRun]
  /\ unin = IdleUninstall
  /\ oce = [attempts |-> [k \in OrderKeys |-> 0], received |-> [k \in OrderKeys |-> 0]]
  /\ req = IdleReq
  /\ cf = IdleCf
  /\ supa = IdleSupa

NextEmailSettings ==
  \/ \E s \in Tenants : GetEmailSettings(s)
  \/ \E s \in Tenants, updates \in UpdatePayloads : UpdateEmailSettings(s, updates)
  \/ Respond

SpecEmailSettings == InitEmailSettings /\ [][NextEmailSettings]_vars

\* C5: no result of getEmailSettings or updateEmailSettings holds the raw
\* stored value of a credential column whose stored value is not empty.
C5NoRawCredentialReturned ==
  (req.op \in {"getEmailSettings", "updateEmailSettings"} /\ req.pc = "return") =>
    \A f \in SecretFields :
      LET stored == db.emailSettings[req.shop][f] IN
      stored # <<>> => ~(f \in DOMAIN req.settings /\ req.settings[f] = stored)

----------------------------------------------------------------------------
(* purchaseDomain, web/backend/routes/email-domains.js, and handlePurchase,
   netlify/functions/cloudflare-domains.js *)

required ==
  <<"first_name", "last_name", "address", "city", "state", "zip", "country",
    "phone", "email">>

\* The column of EmailSettings that purchaseDomain reads each contact field from.
WhoisColumn(f) ==
  CASE f = "first_name" -> "whoisFirstName"
    [] f = "last_name"  -> "whoisLastName"
    [] f = "address"    -> "whoisAddress1"
    [] f = "city"       -> "whoisCity"
    [] f = "state"      -> "whoisState"
    [] f = "zip"        -> "whoisZip"
    [] f = "country"    -> "whoisCountry"
    [] f = "phone"      -> "whoisPhone"
    [] f = "email"      -> "whoisEmail"

contactInfo(settings) == [f \in Range(required) |-> settings[WhoisColumn(f)]]

\* `settings?.metadata || {}` then `meta.whois || {}`: a field that is not
\* there reads as undefined, kept as the empty string.
WhoisOf(settings) ==
  IF settings = NoRow \/ settings.metadata = NoRow
    THEN [f \in Range(required) |-> <<>>]
    ELSE settings.metadata.whois

MissingSkipsLast(whois) ==
  LET Empty(f) == whois[f] = <<>> /\ f # required[Len(required)]
  IN SelectSeq(required, Empty)

\* `required.filter((f) => !whois[f])`
Missing(whois) ==
  LET Empty(f) == whois[f] = <<>>
  IN SelectSeq(required, Empty)

\* Array.prototype.join: the pieces of the joined text.
RECURSIVE Join(_, _)
Join(seq, sep) ==
  IF seq = <<>> THEN <<>>
  ELSE IF Len(seq) = 1 THEN <<seq[1]>>
  ELSE <<seq[1], sep>> \o Join(Tail(seq), sep)

MissingWhoisError(missing) ==
  <<"Missing WHOIS contact info: ">> \o Join(missing, ", ")
    \o <<". Update Email Settings first.">>

\* `settings.cloudflareApiToken && settings.cloudflareAccountId`
HasCloudflare(token, accountId) == token # <<>> /\ accountId # <<>>

DomainName == <<"x", ".", "c", "o">>
ZoneId == "z1"

Fail(status, error) == [status |-> status, error |-> error]

\* POST /api/email/domains/purchase up to its first Cloudflare call:
\* getServiceClients, the credentials check and the WHOIS check.
PurchaseDomainStart(s, domain) ==
  /\ req.pc = "idle"
  /\ LET settings == db.emailSettings[s]
         begin == [op |-> "purchaseDomain", pc |-> "return", shop |-> s,
                   domain |-> domain, zoneId |-> Null, reply |-> NoRow]
     IN req' =
       IF settings = NoRow
         THEN [begin EXCEPT !.reply =
                 Fail(500, <<"Email settings not configured. Set up credentials first.">>)]
       ELSE IF ~HasCloudflare(settings.cloudflareApiToken, settings.cloudflareAccountId)
         THEN [begin EXCEPT !.reply = Fail(500, <<"Cloudflare credentials not configured">>)]
       ELSE IF Missing(contactInfo(settings)) # <<>>
         THEN [begin EXCEPT !.reply =
                 Fail(500, MissingWhoisError(Missing(contactInfo(settings))))]
       ELSE [begin EXCEPT !.pc = "purchase"]
  /\ UNCHANGED <<db, runs, unin, oce, cf, supa>>

\* POST /purchase of the serverless function: the domain name is required.
HandlePurchaseStart(orgId, domain) ==
  /\ req.pc = "idle"
  /\ LET begin == [op |-> "handlePurchase", pc |-> "client", shop |-> orgId,
                   domain |-> domain, zoneId |-> Null, reply |-> NoRow]
     IN req' = IF domain = <<>>
                 THEN [begin EXCEPT !.pc = "return",
                                    !.reply = Fail(400, <<"Domain name is required">>)]
                 ELSE begin
  /\ UNCHANGED <<db, runs, unin, oce, cf, supa>>

\* getCloudflareClient: the first read of email_settings.
GetCloudflareClient ==
  /\ req.op = "handlePurchase" /\ req.pc = "client"
  /\ LET settings == supa.email_settings IN
     req' = IF settings = NoRow
               \/ ~HasCloudflare(settings.cloudflare_api_token, settings.cloudflare_account_id)
              THEN [req EXCEPT !.pc = "return", !.reply =
                      Fail(500, <<"Cloudflare credentials not configured. Update Email Settings first.">>)]
              ELSE [req EXCEPT !.pc = "whois"]
  /\ UNCHANGED <<db, runs, unin, oce, cf, supa>>

\* getWhoisContact: the second read of email_settings.
GetWhoisContact ==
  /\ req.op = "handlePurchase" /\ req.pc = "whois"
  /\ LET missing == Missing(WhoisOf(supa.email_settings)) IN
     req' = IF missing # <<>>
              THEN [req EXCEPT !.pc = "return", !.reply = Fail(500, MissingWhoisError(missing))]
              ELSE [req EXCEPT !.pc = "purchase"]
  /\ UNCHANGED <<db, runs, unin, oce, cf, supa>>

\* cloudflare.purchaseDomain: one HTTP call, which registers the name or raises.
PurchaseAtCloudflare ==
  /\ req.pc = "purchase"
  /\ cf' = [cf EXCEPT !.calls = Append(@, "POST registrar/domains/purchase")]
  /\ \E ok \in BOOLEAN :
       req' = IF ok THEN [req EXCEPT !.pc = "zone"]
              ELSE [req EXCEPT !.pc = "return",
                               !.reply = Fail(500, <<"Cloudflare API error">>)]
  /\ UNCHANGED <<db, runs, unin, oce, supa>>

\* cloudflare.getZoneId inside its own try: a zone id, null, or null after a raise.
GetZoneId ==
  /\ req.pc = "zone"
  /\ cf' = [cf EXCEPT !.calls = Append(@, "GET zones")]
  /\ \E zoneId \in {ZoneId, Null} : req' = [req EXCEPT !.pc = "store", !.zoneId = zoneId]
  /\ UNCHANGED <<db, runs, unin, oce, supa>>

\* The insert of the Domain row and the answer.
StoreDomain ==
  /\ req.pc = "store"
  /\ IF req.op = "purchaseDomain"
       THEN LET row == [shop |-> req.shop, domain |-> req.domain,
                        cloudflareZoneId |-> req.zoneId, registrarStatus |-> "active"]
            IN /\ db' = [db EXCEPT !.emailDomain = @ \cup {row}]
               /\ req' = [req EXCEPT !.pc = "return", !.reply = [status |-> 200, domain |-> row]]
               /\ UNCHANGED supa
       ELSE LET row == [org_id |-> req.shop, domain |-> req.domain,
                        cloudflare_zone_id |-> req.zoneId, status |-> "purchased"]
            IN /\ supa' = [supa EXCEPT !.email_domains = @ \cup {row}]
               /\ req' = [req EXCEPT !.pc = "return", !.reply = [status |-> 201, domain |-> row]]
               /\ UNCHANGED db
  /\ UNCHANGED <<runs, unin, oce, cf>>

\* The tenant's settings as both deployments hold them: no row, or a row with
\* or without each Cloudflare credential and each WHOIS field.
Filled == <<"x">>

WebSettings(s, token, accountId, whois) ==
  [ f \in DOMAIN DefaultEmailSettings(s) |->
      IF f = "cloudflareApiToken" THEN token
      ELSE IF f = "cloudflareAccountId" THEN accountId
      ELSE IF \E g \in Range(required) : WhoisColumn(g) = f
        THEN whois[CHOOSE g \in Range(required) : WhoisColumn(g) = f]
      ELSE DefaultEmailSettings(s)[f] ]

FunctionSettings(orgId, token, accountId, metadata) ==
  [ org_id |-> orgId, cloudflare_api_token |-> token,
    cloudflare_account_id |-> accountId, metadata |-> metadata ]

InitPurchase ==
  /\ runs = [p \in Procs |-> IdleRun]
  /\ unin = IdleUninstall
  /\ oce = [attempts |-> [k \in OrderKeys |-> 0], received |-> [k \in OrderKeys |-> 0]]
  /\ req = IdleReq
  /\ cf = IdleCf
  /\ \/ /\ db = [InitDb EXCEPT !.emailSettings["s1"] = NoRow, !.emailDomain = {}]
        /\ supa = IdleSupa
     \/ \E token \in {<<>>, RawLong}, accountId \in {<<>>, AccountId},
           whois \in [Range(required) -> {<<>>, Filled}], noMetadata \in BOOLEAN :
          /\ db = [InitDb EXCEPT
                     !.emailSettings["s1"] = WebSettings("s1", token, accountId, whois),
                     !.emailDomain = {}]
          /\ supa = [IdleSupa EXCEPT !.email_settings =
                       FunctionSettings("s1", token, accountId,
                         IF noMetadata THEN NoRow ELSE [whois |-> whois])]

NextPurchase ==
  \/ \E s \in Tenants, domain \in {<<>>, DomainName} : PurchaseDomainStart(s, domain)
  \/ \E orgId \in Tenants, domain \in {<<>>, DomainName} : HandlePurchaseStart(orgId, domain)
  \/ GetCloudflareClient
  \/ GetWhoisContact
  \/ PurchaseAtCloudflare
  \/ GetZoneId
  \/ StoreDomain

SpecPurchase == InitPurchase /\ [][NextPurchase]_vars

\* The contact fields the tenant's settings leave empty, as the deployment
\* that serves the request reads them.
EmptyWhoisFields ==
  IF req.op = "purchaseDomain"
    THEN IF db.emailSettings[req.shop] = NoRow THEN Range(required)
         ELSE { f \in Range(required) : db.emailSettings[req.shop][WhoisColumn(f)] = <<>> }
    ELSE { f \in Range(required) : WhoisOf(supa.email_settings)[f] = <<>> }

\* The request got as far as the WHOIS check: the credentials are configured
\* and the serverless function was given a domain name.
ReachedWhoisCheck ==
  IF req.op = "purchaseDomain"
    THEN /\ db.emailSettings[req.shop] # NoRow
         /\ HasCloudflare(db.emailSettings[req.shop].cloudflareApiToken,
                          db.emailSettings[req.shop].cloudflareAccountId)
    ELSE /\ req.domain # <<>>
         /\ supa.email_settings # NoRow
         /\ HasCloudflare(supa.email_settings.cloudflare_api_token,
                          supa.email_settings.cloudflare_account_id)

PurchaseReturned == req.op \in {"purchaseDomain", "handlePurchase"} /\ req.pc = "return"

Position(f) == CHOOSE k \in DOMAIN required : required[k] = f

\* The message names exactly the fields of the set, in the order of `required`,
\* between the fixed opening and closing texts.
ListsExactly(error, fields) ==
  /\ Len(error) = 2 * Cardinality(fields) + 1
  /\ error[1] = "Missing WHOIS contact info: "
  /\ error[Len(error)] = ". Update Email Settings first."
  /\ { error[2 * i] : i \in 1..Cardinality(fields) } = fields
  /\ \A i \in 1..(Cardinality(fields) - 1) :
       /\ error[2 * i + 1] = ", "
       /\ Position(error[2 * i]) < Position(error[2 * i + 2])

\* C7 as stated: a purchase with a required WHOIS field empty issues no
\* Cloudflare call, inserts no Domain row, and its error message lists exactly
\* the missing fields in the fixed order.
C7MissingWhoisListed ==
  (PurchaseReturned /\ EmptyWhoisFields # {}) =>
    /\ cf.calls = <<>>
    /\ db.emailDomain = {} /\ supa.email_domains = {}
    /\ "error" \in DOMAIN req.reply
    /\ ListsExactly(req.reply.error, EmptyWhoisFields)

\* C7 amended: a purchase with a required WHOIS field empty never issues a
\* Cloudflare call nor inserts a Domain row, and it ends with an error; the
\* error lists exactly the missing fields in the fixed order when the
\* Cloudflare credentials are configured (and, in the serverless function, a
\* domain name was given); otherwise the error of the earlier check is returned.
C7MissingWhoisBlocksPurchase ==
  (req.op \in {"purchaseDomain", "handlePurchase"} /\ EmptyWhoisFields # {}) =>
    /\ cf.calls = <<>>
    /\ db.emailDomain = {} /\ supa.email_domains = {}
    /\ req.pc \in {"client", "whois", "return"}
    /\ req.pc = "return" =>
         /\ "error" \in DOMAIN req.reply
         /\ ReachedWhoisCheck => ListsExactly(req.reply.error, EmptyWhoisFields)
         /\ ~ReachedWhoisCheck => req.reply.error[1] # "Missing WHOIS contact info: "

C7Witness ==
  /\ PurchaseReturned /\ req.op = "handlePurchase"
  /\ EmptyWhoisFields = {"last_name", "zip", "email"}
  /\ req.reply.error =
       << "Missing WHOIS contact info: ", "last_name", ", ", "zip", ", ", "email",
          ". Update Email Settings first." >>

----------------------------------------------------------------------------
(* verifyDnsRecords of CloudflareClient (netlify/functions/cloudflare-domains.js)
   and of CloudflareService, and the two verify handlers *)

\* Bound on the number of records the zone listing returns.
MaxRecords == 4

\* String.prototype.startsWith.
startsWith(s, prefix) ==
  Len(s) >= Len(prefix) /\ SubSeq(s, 1, Len(prefix)) = prefix

IncludesAnything(s, part) == TRUE

\* String.prototype.includes.
includes(s, part) ==
  \E i \in 0..(Len(s) - Len(part)) : SubSeq(s, i + 1, i + Len(part)) = part

Spf1 == <<"v", "=", "s", "p", "f", "1">>
Dmarc1 == <<"v", "=", "D", "M", "A", "R", "C", "1">>
DomainKey == <<".", "_", "d", "o", "m", "a", "i", "n", "k", "e", "y", ".">>

\* `_dmarc.${domain}`
DmarcName(domain) == <<"_", "d", "m", "a", "r", "c", ".">> \o domain

NoFlags == [mx |-> FALSE, spf |-> FALSE, dkim |-> FALSE, dmarc |-> FALSE]

ScanOverwrites(status, r, domain) ==
  [ mx    |-> r.type = "MX" /\ r.name = domain,
    spf   |-> r.type = "TXT" /\ r.name = domain /\ startsWith(r.content, Spf1),
    dkim  |-> r.type \in {"TXT", "CNAME"} /\ includes(r.name, DomainKey),
    dmarc |-> r.type = "TXT" /\ r.name = DmarcName(domain)
                /\ startsWith(r.content, Dmarc1) ]

\* The body of the loop of CloudflareClient.verifyDnsRecords: four ifs, each
\* setting its flag.
ScanClient(status, r, domain) ==
  [ mx    |-> IF r.type = "MX" /\ r.name = domain THEN TRUE ELSE status.mx,
    spf   |-> IF r.type = "TXT" /\ r.name = domain /\ startsWith(r.content, Spf1)
                THEN TRUE ELSE status.spf,
    dkim  |-> IF (r.type = "TXT" \/ r.type = "CNAME") /\ includes(r.name, DomainKey)
                THEN TRUE ELSE status.dkim,
    dmarc |-> IF r.type = "TXT" /\ r.name = DmarcName(domain)
                   /\ startsWith(r.content, Dmarc1)
                THEN TRUE ELSE status.dmarc ]

\* The body of the loop of CloudflareService.verifyDnsRecords: the DKIM test
\* is two ifs, one per record type.
ScanService(status, r, domain) ==
  LET afterTxt == IF r.type = "TXT" /\ includes(r.name, DomainKey) THEN TRUE
                  ELSE status.dkim
  IN
  [ mx    |-> IF r.type = "MX" /\ r.name = domain THEN TRUE ELSE status.mx,
    spf   |-> IF r.type = "TXT" /\ r.name = domain /\ startsWith(r.content, Spf1)
                THEN TRUE ELSE status.spf,
    dkim  |-> IF r.type = "CNAME" /\ includes(r.name, DomainKey) THEN TRUE
              ELSE afterTxt,
    dmarc |-> IF r.type = "TXT" /\ r.name = DmarcName(domain)
                   /\ startsWith(r.content, Dmarc1)
                THEN TRUE ELSE status.dmarc ]

\* `for (const r of records)` from the status with every flag false.
RECURSIVE ScanFrom(_, _, _, _)
ScanFrom(status, records, domain, service) ==
  IF records = <<>> THEN status
  ELSE ScanFrom(IF service THEN ScanService(status, Head(records), domain)
                ELSE ScanClient(status, Head(records), domain),
                Tail(records), domain, service)

verifyDnsRecords(records, domain, service) == ScanFrom(NoFlags, records, domain, service)

\* The records the zone listing may return: the four a verified domain has,
\* and near misses of each test.
DkimName == <<"k">> \o DomainKey \o DomainName
NearDkimName == Tail(DomainKey) \o DomainName
MxHost == <<"m", "x">>
SpfContent == Spf1 \o <<" ", "-", "a", "l", "l">>
DmarcContent == Dmarc1 \o <<";">>

Record(type, name, content) == [type |-> type, name |-> name, content |-> content]

ZoneRecords ==
  { Record("MX", DomainName, MxHost),
    Record("MX", DkimName, MxHost),
    Record("TXT", DomainName, SpfContent),
    Record("TXT", DomainName, <<" ">> \o Spf1),
    Record("TXT", DkimName, MxHost),
    Record("CNAME", DkimName, MxHost),
    Record("CNAME", NearDkimName, MxHost),
    Record("TXT", DmarcName(DomainName), DmarcContent),
    Record("TXT", DmarcName(DomainName), SpfContent) }

Listings == UNION { [1..n -> ZoneRecords] : n \in 0..MaxRecords }

\* The Domain row of the Express deployment (Prisma EmailDomain: no overall
\* status column) and of the serverless function (email_domains, with one).
WebDomain(zoneId, verified) ==
  [ id |-> "d1", shop |-> "s1", domain |-> DomainName, cloudflareZoneId |-> zoneId,
    registrarStatus |-> "active", dnsConfigured |-> TRUE,
    mxVerified |-> verified, spfVerified |-> verified,
    dkimVerified |-> verified, dmarcVerified |-> verified ]

FunctionDomain(zoneId, verified) ==
  [ id |-> "d1", org_id |-> "s1", domain |-> DomainName, cloudflare_zone_id |-> zoneId,
    status |-> IF verified THEN "active" ELSE "dns_pending", status_reason |-> <<>>,
    dns_configured |-> TRUE,
    mx_verified |-> verified, spf_verified |-> verified,
    dkim_verified |-> verified, dmarc_verified |-> verified ]

DomainIds == {"d1", "d9"}

\* verifyDns up to getServiceClients: the Domain row of the tenant and its zone.
VerifyDnsStart(s, domainId) ==
  /\ req.pc = "idle"
  /\ LET found == { r \in db.emailDomain : r.id = domainId /\ r.shop = s }
         begin == [op |-> "verifyDns", pc |-> "return", shop |-> s, id |-> domainId,
                   domain |-> <<>>, zoneId |-> Null, records |-> <<>>,
                   status |-> NoFlags, reply |-> NoRow]
     IN req' =
       IF found = {} THEN [begin EXCEPT !.reply = Fail(500, <<"Domain not found">>)]
       ELSE LET domain == CHOOSE r \in found : TRUE IN
            IF domain.cloudflareZoneId = Null
              THEN [begin EXCEPT !.reply = Fail(500, <<"Domain has no Cloudflare zone">>)]
              ELSE [begin EXCEPT !.pc = "client", !.domain = domain.domain,
                                 !.zoneId = domain.cloudflareZoneId]
  /\ UNCHANGED <<db, runs, unin, oce, cf, supa>>

\* handleVerifyDns up to getCloudflareClient.
HandleVerifyDnsStart(orgId, domain_id) ==
  /\ req.pc = "idle"
  /\ LET found == { r \in supa.email_domains : r.id = domain_id /\ r.org_id = orgId }
         begin == [op |-> "handleVerifyDns", pc |-> "return", shop |-> orgId,
                   id |-> domain_id, domain |-> <<>>, zoneId |-> Null,
                   records |-> <<>>, status |-> NoFlags, reply |-> NoRow]
     IN req' =
       IF domain_id = "" THEN [begin EXCEPT !.reply = Fail(400, <<"domain_id is required">>)]
       ELSE IF found = {} THEN [begin EXCEPT !.reply = Fail(404, <<"Domain not found">>)]
       ELSE LET domain == CHOOSE r \in found : TRUE IN
            IF domain.cloudflare_zone_id = Null
              THEN [begin EXCEPT !.reply = Fail(400, <<"Domain has no Cloudflare zone">>)]
              ELSE [begin EXCEPT !.pc = "client", !.domain = domain.domain,
                                 !.zoneId = domain.cloudflare_zone_id]
  /\ UNCHANGED <<db, runs, unin, oce, cf, supa>>

\* getServiceClients, respectively getCloudflareClient, of a verify request.
VerifyClient ==
  /\ req.op \in {"verifyDns", "handleVerifyDns"} /\ req.pc = "client"
  /\ req' =
       IF req.op = "verifyDns"
         THEN LET settings == db.emailSettings[req.shop] IN
              IF settings = NoRow
                THEN [req EXCEPT !.pc = "return", !.reply =
                        Fail(500, <<"Email settings not configured. Set up credentials first.">>)]
              ELSE IF ~HasCloudflare(settings.cloudflareApiToken, settings.cloudflareAccountId)
                THEN [req EXCEPT !.pc = "return", !.reply =
                        Fail(500, <<"Cloudflare credentials not configured">>)]
              ELSE [req EXCEPT !.pc = "list"]
         ELSE LET settings == supa.email_settings IN
              IF settings = NoRow
                   \/ ~HasCloudflare(settings.cloudflare_api_token,
                                     settings.cloudflare_account_id)
                THEN [req EXCEPT !.pc = "return", !.reply =
                        Fail(500, <<"Cloudflare credentials not configured. Update Email Settings first.">>)]
                ELSE [req EXCEPT !.pc = "list"]
  /\ UNCHANGED <<db, runs, unin, oce, cf, supa>>

\* cloudflare.verifyDnsRecords: the listing call raises, or its records are
\* scanned; the Express deployment uses CloudflareService.
VerifyRecords ==
  /\ req.op \in {"verifyDns", "handleVerifyDns"} /\ req.pc = "list"
  /\ cf' = [cf EXCEPT !.calls = Append(@, "GET dns_records")]
  /\ \/ req' = [req EXCEPT !.pc = "return", !.reply = Fail(500, <<"Cloudflare API error">>)]
     \/ \E records \in Listings :
          req' = [req EXCEPT !.pc = "persist", !.records = records,
                    !.status = verifyDnsRecords(records, req.domain, req.op = "verifyDns")]
  /\ UNCHANGED <<db, runs, unin, oce, supa>>

NewStatusAlwaysActive(status) == "active"

NewStatusIgnoresDkim(status) ==
  IF status.mx /\ status.spf /\ status.dmarc THEN "active" ELSE "dns_pending"

\* `allVerified ? "active" : "dns_pending"`
NewStatus(status) ==
  IF status.mx /\ status.spf /\ status.dkim /\ status.dmarc THEN "active"
  ELSE "dns_pending"

\* The update of the Domain row by id, and the answer.
VerifyPersist ==
  /\ req.op \in {"verifyDns", "handleVerifyDns"} /\ req.pc = "persist"
  /\ IF req.op = "verifyDns"
       THEN /\ db' = [db EXCEPT !.emailDomain =
                       { IF r.id = req.id
                           THEN [r EXCEPT !.mxVerified = req.status.mx,
                                          !.spfVerified = req.status.spf,
                                          !.dkimVerified = req.status.dkim,
                                          !.dmarcVerified = req.status.dmarc]
                           ELSE r : r \in @ }]
            /\ req' = [req EXCEPT !.pc = "return", !.reply = req.status]
            /\ UNCHANGED supa
       ELSE /\ supa' = [supa EXCEPT !.email_domains =
                         { IF r.id = req.id
                             THEN [r EXCEPT !.mx_verified = req.status.mx,
                                            !.spf_verified = req.status.spf,
                                            !.dkim_verified = req.status.dkim,
                                            !.dmarc_verified = req.status.dmarc,
                                            !.status = NewStatus(req.status)]
                             ELSE r : r \in @ }]
            /\ req' = [req EXCEPT !.pc = "return", !.reply =
                        [ status |-> 200, success |-> TRUE, flags |-> req.status,
                          all_verified |-> (NewStatus(req.status) = "active"),
                          domain_status |-> NewStatus(req.status) ]]
            /\ UNCHANGED db
  /\ UNCHANGED <<runs, unin, oce, cf>>

\* The tenant's purchased domain, with or without a zone id, never verified or
\* verified before; the Cloudflare credentials configured or not.
InitVerify ==
  /\ runs = [p \in Procs |-> IdleRun]
  /\ unin = IdleUninstall
  /\ oce = [attempts |-> [k \in OrderKeys |-> 0], received |-> [k \in OrderKeys |-> 0]]
  /\ req = IdleReq
  /\ cf = IdleCf
  /\ \E token \in {<<>>, RawLong}, zoneId \in {Null, ZoneId}, verified \in BOOLEAN :
       /\ db = [InitDb EXCEPT
                  !.emailSettings["s1"] =
                     WebSettings("s1", token, AccountId, [f \in Range(required) |-> Filled]),
                  !.emailDomain = {WebDomain(zoneId, verified)}]
       /\ supa = [email_settings |->
                    FunctionSettings("s1", token, AccountId,
                                     [whois |-> [f \in Range(required) |-> Filled]]),
                  email_domains |-> {FunctionDomain(zoneId, verified)}]

NextVerify ==
  \/ \E s \in Tenants, domainId \in DomainIds : VerifyDnsStart(s, domainId)
  \/ \E orgId \in Tenants, domain_id \in DomainIds \cup {""} :
       HandleVerifyDnsStart(orgId, domain_id)
  \/ VerifyClient
  \/ VerifyRecords
  \/ VerifyPersist

SpecVerify == InitVerify /\ [][NextVerify]_vars

\* The listing of a verify request has been scanned.
Scanned == req.op \in {"verifyDns", "handleVerifyDns"} /\ req.pc = "persist"

\* The sequence with the records at positions i and j exchanged.
Swap(seq, i, j) ==
  [k \in DOMAIN seq |-> IF k = i THEN seq[j] ELSE IF k = j THEN seq[i] ELSE seq[k]]

\* C8: each flag of verifyDnsRecords is true exactly when the listing holds a
\* record that passes the flag's test (MX at the domain; TXT at the domain
\* starting with v=spf1; TXT or CNAME whose name contains ._domainkey.; TXT at
\* _dmarc.<domain> starting with v=DMARC1), and exchanging two neighbouring
\* records of the listing, hence any reordering of it, gives the same flags,
\* in both implementations.
C8FlagsOfRecordSet ==
  Scanned =>
    LET zone == Range(req.records)
        d == req.domain
    IN /\ req.status.mx = (\E r \in zone : r.type = "MX" /\ r.name = d)
       /\ req.status.spf = (\E r \in zone : /\ r.type = "TXT" /\ r.name = d
                                            /\ Len(r.content) >= 6
                                            /\ \A i \in 1..6 : r.content[i] = Spf1[i])
       /\ req.status.dkim = (\E r \in zone :
                               /\ r.type \in {"TXT", "CNAME"}
                               /\ \E i \in 1..Len(r.name) :
                                    /\ i + 11 <= Len(r.name)
                                    /\ \A k \in 0..11 : r.name[i + k] = DomainKey[k + 1])
       /\ req.status.dmarc = (\E r \in zone : /\ r.type = "TXT"
                                              /\ r.name = DmarcName(d)
                                              /\ Len(r.content) >= 8
                                              /\ \A i \in 1..8 : r.content[i] = Dmarc1[i])
       /\ \A i \in 1..(Len(req.records) - 1), service \in BOOLEAN :
            verifyDnsRecords(Swap(req.records, i, i + 1), d, service) = req.status

C8Witness ==
  /\ Scanned /\ req.op = "handleVerifyDns"
  /\ req.status = [mx |-> TRUE, spf |-> TRUE, dkim |-> TRUE, dmarc |-> TRUE]
  /\ req.records[1].name = DmarcName(DomainName)
  /\ req.records[Len(req.records)].type = "MX"

\* The Domain row of the request in the store of the deployment that served it.
VerifiedRow ==
  IF req.op = "verifyDns"
    THEN LET r == CHOOSE r \in db.emailDomain : r.id = req.id IN
         [ flags |-> [mx |-> r.mxVerified, spf |-> r.spfVerified,
                      dkim |-> r.dkimVerified, dmarc |-> r.dmarcVerified],
           status |-> Null, registrarStatus |-> r.registrarStatus ]
    ELSE LET r == CHOOSE r \in supa.email_domains : r.id = req.id IN
         [ flags |-> [mx |-> r.mx_verified, spf |-> r.spf_verified,
                      dkim |-> r.dkim_verified, dmarc |-> r.dmarc_verified],
           status |-> r.status, registrarStatus |-> Null ]

VerifyReturned ==
  /\ req.op \in {"verifyDns", "handleVerifyDns"} /\ req.pc = "return"
  /\ "error" \notin DOMAIN req.reply

AllFour(flags) == flags.mx /\ flags.spf /\ flags.dkim /\ flags.dmarc

\* C9 as stated: Verify DNS persists the four flags and the overall status,
\* and the status it persists and returns is "active" exactly when the four
\* flags are true, "dns_pending" otherwise.
C9StatusPersisted ==
  VerifyReturned =>
    /\ VerifiedRow.flags = req.status
    /\ VerifiedRow.status = IF AllFour(req.status) THEN "active" ELSE "dns_pending"
    /\ "domain_status" \in DOMAIN req.reply
    /\ req.reply.domain_status = VerifiedRow.status

\* C9 amended: both handlers persist the four flags as scanned.  handleVerifyDns
\* also persists and returns the overall status, "active" exactly when the four
\* flags are true and "dns_pending" otherwise; verifyDns persists and returns
\* the four flags only: its Domain row has no overall status and its
\* registrarStatus stays as it was.
C9FlagsAndStatus ==
  VerifyReturned =>
    /\ VerifiedRow.flags = req.status
    /\ req.op = "handleVerifyDns" =>
         /\ VerifiedRow.status = IF AllFour(req.status) THEN "active" ELSE "dns_pending"
         /\ req.reply.domain_status = VerifiedRow.status
         /\ req.reply.all_verified = AllFour(req.status)
         /\ req.reply.flags = req.status
    /\ req.op = "verifyDns" =>
         /\ VerifiedRow.status = Null
         /\ VerifiedRow.registrarStatus = "active"
         /\ req.reply = req.status

C9Witness ==
  /\ VerifyReturned /\ req.op = "handleVerifyDns"
  /\ req.status = [mx |-> TRUE, spf |-> TRUE, dkim |-> FALSE, dmarc |-> TRUE]
  /\ VerifiedRow.status = "dns_pending"
  /\ req.reply.domain_status = "dns_pending"

----------------------------------------------------------------------------
(* provisionColdEmailDns of CloudflareClient, netlify/functions/cloudflare-domains.js
   (CloudflareService has the same text) *)

\* Bounds on the provider profile.
MaxMx == 3
MaxDkim == 2

Digits == <<"1", "2", "3", "4", "5">>

\* provider.mxRecords and provider.dkimRecords of n entries; the first DKIM
\* entry gives no type.
MxRecords(n) ==
  [i \in 1..n |-> [content |-> <<"m", "x", Digits[i]>>, priority |-> 10 * i]]

DkimRecords(n) ==
  [i \in 1..n |-> [name |-> <<Digits[i]>> \o DomainKey \o DomainName,
                   content |-> <<"k", Digits[i]>>,
                   type |-> IF i = 1 THEN Null ELSE "CNAME"]]

Providers ==
  { [mxRecords |-> MxRecords(n), spfInclude |-> spf, dkimRecords |-> DkimRecords(m)] :
      n \in 0..MaxMx, spf \in {<<>>, <<"z">>}, m \in 0..MaxDkim }

\* `{ mx: [], spf: null, dkim: [], dmarc: null, errors: [] }`
NoResults == [mx |-> <<>>, spf |-> NoRow, dkim |-> <<>>, dmarc |-> NoRow, errors |-> <<>>]

\* The control flow between the creations: leave a loop that is over, skip
\* the SPF block when the profile names no include.
RECURSIVE Advance(_)
Advance(r) ==
  CASE r.pc = "mx" /\ r.i > Len(r.provider.mxRecords) -> Advance([r EXCEPT !.pc = "spf"])
    [] r.pc = "spf" /\ r.provider.spfInclude = <<>>   -> Advance([r EXCEPT !.pc = "dkim", !.i = 1])
    [] r.pc = "dkim" /\ r.i > Len(r.provider.dkimRecords) -> [r EXCEPT !.pc = "dmarc"]
    [] OTHER -> r

CaughtAborts(r, label) == [r EXCEPT !.pc = "return", !.raised = TRUE]

\* A catch block: `results.errors.push(...)`, and the function goes on.
Caught(r, label) == [r EXCEPT !.results.errors = Append(@, label)]

\* createDnsRecord: one POST to the zone, answered with the record or a raise.
Attempt(kind, ok) == [kind |-> kind, ok |-> ok]

ProvisionStart(provider) ==
  /\ req.pc = "idle"
  /\ req' = Advance([op |-> "provisionColdEmailDns", pc |-> "mx", i |-> 1,
                     domain |-> DomainName, provider |-> provider,
                     results |-> NoResults, raised |-> FALSE])
  /\ UNCHANGED <<db, runs, unin, oce, cf, supa>>

CreateMx ==
  /\ req.op = "provisionColdEmailDns" /\ req.pc = "mx"
  /\ LET mx == req.provider.mxRecords[req.i] IN
     \E ok \in BOOLEAN :
       /\ cf' = [cf EXCEPT !.calls = Append(@, Attempt("MX", ok))]
       /\ req' = Advance(
            IF ok THEN [req EXCEPT !.i = @ + 1, !.results.mx =
                          Append(@, Record("MX", req.domain, mx.content))]
            ELSE [Caught(req, <<"MX">> \o mx.content) EXCEPT !.i = @ + 1])
  /\ UNCHANGED <<db, runs, unin, oce, supa>>

CreateSpf ==
  /\ req.op = "provisionColdEmailDns" /\ req.pc = "spf"
  /\ \E ok \in BOOLEAN :
       /\ cf' = [cf EXCEPT !.calls = Append(@, Attempt("SPF", ok))]
       /\ req' = Advance(
            IF ok THEN [req EXCEPT !.pc = "dkim", !.i = 1, !.results.spf =
                          Record("TXT", req.domain,
                                 Spf1 \o <<" ">> \o req.provider.spfInclude \o <<" ", "-", "a", "l", "l">>)]
            ELSE [Caught(req, <<"SPF">>) EXCEPT !.pc = IF @ = "spf" THEN "dkim" ELSE @, !.i = 1])
  /\ UNCHANGED <<db, runs, unin, oce, supa>>

CreateDkim ==
  /\ req.op = "provisionColdEmailDns" /\ req.pc = "dkim"
  /\ LET dkim == req.provider.dkimRecords[req.i] IN
     \E ok \in BOOLEAN :
       /\ cf' = [cf EXCEPT !.calls = Append(@, Attempt("DKIM", ok))]
       /\ req' = Advance(
            IF ok THEN [req EXCEPT !.i = @ + 1, !.results.dkim =
                          Append(@, Record(IF dkim.type = Null THEN "TXT" ELSE dkim.type,
                                           dkim.name, dkim.content))]
            ELSE [Caught(req, <<"DKIM">> \o dkim.name) EXCEPT !.i = @ + 1])
  /\ UNCHANGED <<db, runs, unin, oce, supa>>

CreateDmarc ==
  /\ req.op = "provisionColdEmailDns" /\ req.pc = "dmarc"
  /\ \E ok \in BOOLEAN :
       /\ cf' = [cf EXCEPT !.calls = Append(@, Attempt("DMARC", ok))]
       /\ req' = IF ok
                   THEN [req EXCEPT !.pc = "return", !.results.dmarc =
                           Record("TXT", DmarcName(req.domain), Dmarc1 \o <<";">>)]
                   ELSE [Caught(req, <<"DMARC">>) EXCEPT !.pc = "return"]
  /\ UNCHANGED <<db, runs, unin, oce, supa>>

InitProvision ==
  /\ db = InitDb
  /\ runs = [p \in Procs |-> IdleRun]
  /\ unin = IdleUninstall
  /\ oce = [attempts |-> [k \in OrderKeys |-> 0], received |-> [k \in OrderKeys |-> 0]]
  /\ req = IdleReq
  /\ cf = IdleCf
  /\ supa = IdleSupa

NextProvision ==
  \/ \E provider \in Providers : ProvisionStart(provider)
  \/ CreateMx
  \/ CreateSpf
  \/ CreateDkim
  \/ CreateDmarc

SpecProvision == InitProvision /\ [][NextProvision]_vars

\* The creations the profile asks for, in the order MX, SPF, DKIM, DMARC.
Planned(provider) ==
  [i \in 1..Len(provider.mxRecords) |-> "MX"]
    \o (IF provider.spfInclude # <<>> THEN <<"SPF">> ELSE <<>>)
    \o [i \in 1..Len(provider.dkimRecords) |-> "DKIM"]
    \o <<"DMARC">>

Succeeded(results) ==
  Len(results.mx) + (IF results.spf # NoRow THEN 1 ELSE 0)
    + Len(results.dkim) + (IF results.dmarc # NoRow THEN 1 ELSE 0)

\* C10: provisionColdEmailDns attempts the creations of the profile in the
\* order MX, SPF, DKIM, DMARC whatever the earlier outcomes; every failed
\* creation adds one entry to errors; successes plus errors equal the
\* creations attempted; and the call returns without raising.
C10ProvisionAttemptsAll ==
  req.op = "provisionColdEmailDns" =>
    /\ ~req.raised
    /\ Len(cf.calls) <= Len(Planned(req.provider))
    /\ \A k \in DOMAIN cf.calls : cf.calls[k].kind = Planned(req.provider)[k]
    /\ Len(req.results.errors) = Cardinality({ k \in DOMAIN cf.calls : ~cf.calls[k].ok })
    /\ Succeeded(req.results) + Len(req.results.errors) = Len(cf.calls)
    /\ req.pc = "return" => Len(cf.calls) = Len(Planned(req.provider))

C10Witness ==
  /\ req.op = "provisionColdEmailDns" /\ req.pc = "return"
  /\ Len(req.provider.mxRecords) = 3 /\ Len(req.provider.dkimRecords) = 2
  /\ Len(cf.calls) = 7
  /\ ~cf.calls[1].ok /\ ~cf.calls[4].ok /\ cf.calls[7].ok
  /\ Len(req.results.errors) = 3

----------------------------------------------------------------------------
(* handleProvisionDns, netlify/functions/cloudflare-domains.js, and provisionDns,
   web/backend/routes/email-domains.js *)

\* `providerConfig || { mxRecords: [three hosts], spfInclude, dkimRecords: [] }`
DefaultProvider ==
  [mxRecords |-> MxRecords(3), spfInclude |-> <<"z">>, dkimRecords |-> <<>>]

ProviderOr(providerConfig) ==
  IF providerConfig = NoRow THEN DefaultProvider ELSE providerConfig

\* The locals of a provision request before provisionColdEmailDns is entered.
ProvisionBegin(op, s, id, providerConfig) ==
  [ op |-> op, pc |-> "return", shop |-> s, id |-> id, domain |-> <<>>,
    zoneId |-> Null, providerConfig |-> providerConfig, reply |-> NoRow ]

\* provisionDns up to getServiceClients: the Domain row of the tenant.
ProvisionDnsStart(s, domainId, providerConfig) ==
  /\ req.pc = "idle"
  /\ LET found == { r \in db.emailDomain : r.id = domainId /\ r.shop = s }
         begin == ProvisionBegin("provisionDns", s, domainId, providerConfig)
     IN req' =
       IF found = {} THEN [begin EXCEPT !.reply = Fail(500, <<"Domain not found">>)]
       ELSE LET domain == CHOOSE r \in found : TRUE IN
            [begin EXCEPT !.pc = "client", !.domain = domain.domain,
                          !.zoneId = domain.cloudflareZoneId]
  /\ UNCHANGED <<db, runs, unin, oce, cf, supa>>

\* handleProvisionDns up to getCloudflareClient.
HandleProvisionDnsStart(orgId, domain_id, providerConfig) ==
  /\ req.pc = "idle"
  /\ LET found == { r \in supa.email_domains : r.id = domain_id /\ r.org_id = orgId }
         begin == ProvisionBegin("handleProvisionDns", orgId, domain_id, providerConfig)
     IN req' =
       IF domain_id = "" THEN [begin EXCEPT !.reply = Fail(400, <<"domain_id is required">>)]
       ELSE IF found = {} THEN [begin EXCEPT !.reply = Fail(404, <<"Domain not found">>)]
       ELSE LET domain == CHOOSE r \in found : TRUE IN
            [begin EXCEPT !.pc = "client", !.domain = domain.domain,
                          !.zoneId = domain.cloudflare_zone_id]
  /\ UNCHANGED <<db, runs, unin, oce, cf, supa>>

\* getServiceClients, respectively getCloudflareClient, of a provision request.
ProvisionClient ==
  /\ req.op \in {"provisionDns", "handleProvisionDns"} /\ req.pc = "client"
  /\ LET configured ==
           IF req.op = "provisionDns"
             THEN /\ db.emailSettings[req.shop] # NoRow
                  /\ HasCloudflare(db.emailSettings[req.shop].cloudflareApiToken,
                                   db.emailSettings[req.shop].cloudflareAccountId)
             ELSE /\ supa.email_settings # NoRow
                  /\ HasCloudflare(supa.email_settings.cloudflare_api_token,
                                   supa.email_settings.cloudflare_account_id)
     IN req' = IF configured THEN [req EXCEPT !.pc = "zone"]
               ELSE [req EXCEPT !.pc = "return", !.reply =
                       Fail(500, <<"Cloudflare credentials not configured">>)]
  /\ UNCHANGED <<db, runs, unin, oce, cf, supa>>

\* The row of the request with its zone id set.
WithZone(table, id, zoneId, web) ==
  { IF r.id = id
      THEN IF web THEN [r EXCEPT !.cloudflareZoneId = zoneId]
           ELSE [r EXCEPT !.cloudflare_zone_id = zoneId]
      ELSE r : r \in table }

\* "Ensure we have a zone ID": nothing to do when the row has one; else the
\* zone is looked up or created and its id persisted, or a call raises.  Then
\* provisionColdEmailDns is entered with the caller's or the default profile.
EnsureZone ==
  /\ req.op \in {"provisionDns", "handleProvisionDns"} /\ req.pc = "zone"
  /\ \E outcome \in IF req.zoneId # Null THEN {"has"} ELSE {"found", "created", "raised"} :
       IF outcome = "raised"
         THEN /\ req' = [req EXCEPT !.pc = "return",
                                    !.reply = Fail(500, <<"Cloudflare API error">>)]
              /\ UNCHANGED <<db, supa>>
         ELSE /\ req' = Advance(
                   [ op |-> "provisionColdEmailDns", pc |-> "mx", i |-> 1,
                     domain |-> req.domain, provider |-> ProviderOr(req.providerConfig),
                     results |-> NoResults, raised |-> FALSE,
                     caller |-> req.op, shop |-> req.shop, id |-> req.id ])
              /\ IF outcome = "has" THEN UNCHANGED <<db, supa>>
                 ELSE IF req.op = "provisionDns"
                   THEN /\ db' = [db EXCEPT !.emailDomain = WithZone(@, req.id, ZoneId, TRUE)]
                        /\ UNCHANGED supa
                   ELSE /\ supa' = [supa EXCEPT !.email_domains =
                                      WithZone(@, req.id, ZoneId, FALSE)]
                        /\ UNCHANGED db
  /\ UNCHANGED <<runs, unin, oce, cf>>

StatusIgnoresErrors(results) == "dns_pending"

\* `results.errors.length === 0 ? "dns_pending" : "failed"`
ProvisionStatus(results) == IF Len(results.errors) = 0 THEN "dns_pending" ELSE "failed"

\* `results.errors.length > 0 ? results.errors.join("; ") : null`, null kept
\* as the empty text.
StatusReason(results) == Join(results.errors, "; ")

\* "Update domain status" / "Update domain record", and the answer.
ProvisionPersist ==
  /\ req.op = "provisionColdEmailDns" /\ req.pc = "return"
  /\ "caller" \in DOMAIN req
  /\ LET results == req.results IN
     IF req.caller = "provisionDns"
       THEN /\ db' = [db EXCEPT !.emailDomain =
                       { IF r.id = req.id
                           THEN [r EXCEPT !.dnsConfigured = TRUE,
                                          !.mxVerified = Len(results.mx) > 0,
                                          !.spfVerified = results.spf # NoRow,
                                          !.dmarcVerified = results.dmarc # NoRow]
                           ELSE r : r \in @ }]
            /\ UNCHANGED supa
       ELSE /\ supa' = [supa EXCEPT !.email_domains =
                         { IF r.id = req.id
                             THEN [r EXCEPT !.status = ProvisionStatus(results),
                                            !.status_reason = StatusReason(results),
                                            !.dns_configured = TRUE,
                                            !.mx_verified = Len(results.mx) > 0,
                                            !.spf_verified = results.spf # NoRow,
                                            !.dmarc_verified = results.dmarc # NoRow]
                             ELSE r : r \in @ }]
            /\ UNCHANGED db
  /\ req' = [ op |-> req.caller, pc |-> "return", shop |-> req.shop, id |-> req.id,
              results |-> req.results,
              reply |-> [status |-> 200, results |-> req.results] ]
  /\ UNCHANGED <<runs, unin, oce, cf>>

\* The tenant's purchased domain, with or without a zone id, not provisioned
\* yet; the Cloudflare credentials configured or not.
InitProvisionDns ==
  /\ runs = [p \in Procs |-> IdleRun]
  /\ unin = IdleUninstall
  /\ oce = [attempts |-> [k \in OrderKeys |-> 0], received |-> [k \in OrderKeys |-> 0]]
  /\ req = IdleReq
  /\ cf = IdleCf
  /\ \E token \in {<<>>, RawLong}, zoneId \in {Null, ZoneId} :
       /\ db = [InitDb EXCEPT
                  !.emailSettings["s1"] =
                     WebSettings("s1", token, AccountId, [f \in Range(required) |-> Filled]),
                  !.emailDomain =
                     {[WebDomain(zoneId, FALSE) EXCEPT !.dnsConfigured = FALSE]}]
       /\ supa = [email_settings |->
                    FunctionSettings("s1", token, AccountId,
                                     [whois |-> [f \in Range(required) |-> Filled]]),
                  email_domains |->
                    {[FunctionDomain(zoneId, FALSE) EXCEPT !.status = "purchased",
                                                           !.dns_configured = FALSE]}]

NextProvisionDns ==
  \/ \E s \in Tenants, domainId \in DomainIds, providerConfig \in Providers \cup {NoRow} :
       ProvisionDnsStart(s, domainId, providerConfig)
  \/ \E orgId \in Tenants, domain_id \in DomainIds \cup {""},
        providerConfig \in Providers \cup {NoRow} :
       HandleProvisionDnsStart(orgId, domain_id, providerConfig)
  \/ ProvisionClient
  \/ EnsureZone
  \/ CreateMx
  \/ CreateSpf
  \/ CreateDkim
  \/ CreateDmarc
  \/ ProvisionPersist

SpecProvisionDns == InitProvisionDns /\ [][NextProvisionDns]_vars

ProvisionReturned ==
  /\ req.op \in {"provisionDns", "handleProvisionDns"} /\ req.pc = "return"
  /\ "results" \in DOMAIN req

\* The Domain row of the provision request in the store of its deployment.
ProvisionedRow ==
  IF req.op = "provisionDns"
    THEN LET r == CHOOSE r \in db.emailDomain : r.id = req.id IN
         [ status |-> Null, reason |-> <<>>, configured |-> r.dnsConfigured,
           mx |-> r.mxVerified, spf |-> r.spfVerified, dmarc |-> r.dmarcVerified,
           dkim |-> r.dkimVerified, registrarStatus |-> r.registrarStatus ]
    ELSE LET r == CHOOSE r \in supa.email_domains : r.id = req.id IN
         [ status |-> r.status, reason |-> r.status_reason, configured |-> r.dns_configured,
           mx |-> r.mx_verified, spf |-> r.spf_verified, dmarc |-> r.dmarc_verified,
           dkim |-> r.dkim_verified, registrarStatus |-> Null ]

\* The creations of one kind that Cloudflare accepted, and those it refused.
Created(kind) == { k \in DOMAIN cf.calls : cf.calls[k].kind = kind /\ cf.calls[k].ok }
Refused == { k \in DOMAIN cf.calls : ~cf.calls[k].ok }

FlagsAsCreated(row) ==
  /\ row.configured
  /\ row.mx = (Created("MX") # {})
  /\ row.spf = (Created("SPF") # {})
  /\ row.dmarc = (Created("DMARC") # {})
  /\ ~row.dkim

\* C11 as stated: after Provision DNS the Domain row has status "dns_pending"
\* when no creation failed and "failed" with the joined messages as status
\* reason otherwise, dnsConfigured is true, and the MX, SPF and DMARC flags
\* say whether a record of that kind was created.
C11ProvisionStatus ==
  ProvisionReturned =>
    /\ FlagsAsCreated(ProvisionedRow)
    /\ ProvisionedRow.status = IF Refused = {} THEN "dns_pending" ELSE "failed"
    /\ Refused # {} => ProvisionedRow.reason = Join(req.results.errors, "; ")

\* C11 amended: both handlers set dnsConfigured and the MX, SPF and DMARC flags
\* as stated and leave the DKIM flag alone.  handleProvisionDns also sets the
\* status, "dns_pending" when no creation failed and "failed" otherwise, with
\* one message per failed creation joined by "; " as status reason (none when
\* nothing failed); provisionDns stores no status nor reason and leaves
\* registrarStatus as it was.
C11ProvisionFlagsAndStatus ==
  ProvisionReturned =>
    /\ FlagsAsCreated(ProvisionedRow)
    /\ req.op = "handleProvisionDns" =>
         /\ ProvisionedRow.status = IF Refused = {} THEN "dns_pending" ELSE "failed"
         /\ Len(ProvisionedRow.reason) =
              IF Refused = {} THEN 0 ELSE 2 * Cardinality(Refused) - 1
         /\ \A k \in 1..Cardinality(Refused) :
              ProvisionedRow.reason[2 * k - 1] = req.results.errors[k]
         /\ \A k \in 1..(Cardinality(Refused) - 1) : ProvisionedRow.reason[2 * k] = "; "
    /\ req.op = "provisionDns" =>
         /\ ProvisionedRow.status = Null
         /\ ProvisionedRow.registrarStatus = "active"

C11Witness ==
  /\ ProvisionReturned /\ req.op = "handleProvisionDns"
  /\ ProvisionedRow.status = "failed"
  /\ ProvisionedRow.mx /\ ~ProvisionedRow.spf /\ ProvisionedRow.dmarc
  /\ Cardinality(Refused) = 2

----------------------------------------------------------------------------
(* POST /webhooks/smartlead/reply, web/server.js, and the three webhook
   receivers together *)

\* SMARTLEAD_WEBHOOK_SECRET when set, and what a caller may put in ?secret=.
WebhookSecret == "s3cret"
GivenSecrets == {Null, WebhookSecret, "guess"}

Mailbox(s) == "box@" \o s

\* What the payload may carry as to_email: nothing (also the case of a body
\* the raw parser took first), a mailbox of the tenant, an unknown address.
ToEmails == {Null, Mailbox("s1"), "nobody@x.co"}

SecretAlwaysPasses(secret, given) == TRUE

\* `secret && req.query.secret !== secret` is the rejection.
SecretPasses(secret, given) == secret = Null \/ given = secret

\* The check, the answer, and the handler up to its first await.
SmartleadReply(secret, given, to_email) ==
  /\ req.pc = "idle"
  /\ LET begin == [op |-> "smartleadReply", pc |-> "return", secret |-> secret,
                   given |-> given, to_email |-> to_email, response |-> 401,
                   shop |-> Null, steps |-> 0]
     IN req' = IF ~SecretPasses(secret, given) THEN begin
               ELSE IF to_email = Null THEN [begin EXCEPT !.response = 200]
               ELSE [begin EXCEPT !.response = 200, !.pc = "account"]
  /\ UNCHANGED <<db, runs, unin, oce, cf, supa>>

\* prisma.emailAccount.findUnique by address: the tenant, or the handler ends.
SmartleadAccount ==
  /\ req.op = "smartleadReply" /\ req.pc = "account"
  /\ LET found == { r \in db.emailAccount :
                      "emailAddress" \in DOMAIN r /\ r.emailAddress = req.to_email }
     IN req' = IF found = {} THEN [req EXCEPT !.pc = "return", !.steps = @ + 1]
               ELSE [req EXCEPT !.pc = "store", !.steps = @ + 1,
                                !.shop = (CHOOSE r \in found : TRUE).shop]
  /\ UNCHANGED <<db, runs, unin, oce, cf, supa>>

\* prisma.emailConversation.create: the reply is stored, or the write raises
\* and the outer catch logs it.
SmartleadStore ==
  /\ req.op = "smartleadReply" /\ req.pc = "store"
  /\ \/ /\ db' = [db EXCEPT !.emailConversation =
                    @ \cup {[shop |-> req.shop, toEmail |-> req.to_email,
                             direction |-> "inbound"]}]
        /\ req' = [req EXCEPT !.pc = "forward", !.steps = @ + 1]
     \/ /\ req' = [req EXCEPT !.pc = "return", !.steps = @ + 1]
        /\ UNCHANGED db
  /\ UNCHANGED <<runs, unin, oce, cf, supa>>

\* The forward to Gmail inside its own try: it succeeds or its error is logged.
SmartleadForward ==
  /\ req.op = "smartleadReply" /\ req.pc = "forward"
  /\ req' = [req EXCEPT !.pc = "return", !.steps = @ + 1]
  /\ UNCHANGED <<db, runs, unin, oce, cf, supa>>

\* The tenant installed, with one mailbox connected.
InitWebhooks ==
  /\ db = [InitDb EXCEPT !.emailAccount =
             { [shop |-> s, emailAddress |-> Mailbox(s)] : s \in Shops }]
  /\ runs = [p \in Procs |-> IdleRun]
  /\ unin = IdleUninstall
  /\ oce = [attempts |-> [k \in OrderKeys |-> 0], received |-> [k \in OrderKeys |-> 0]]
  /\ req = IdleReq
  /\ cf = IdleCf
  /\ supa = IdleSupa

\* One delivery of each webhook, and the API key being saved.
NextWebhooks ==
  \/ \E s \in Tenants, o \in Orders, hmacOk \in BOOLEAN : Deliver(1, s, o, hmacOk)
  \/ OrderStep(1)
  \/ \E s \in Tenants : UpdateApiKey(s, "key")
  \/ \E s \in Tenants, hmacOk \in BOOLEAN : UninstallStart(s, hmacOk)
  \/ UninstallStep
  \/ \E secret \in {Null, WebhookSecret}, given \in GivenSecrets, to_email \in ToEmails :
       SmartleadReply(secret, given, to_email)
  \/ SmartleadAccount
  \/ SmartleadStore
  \/ SmartleadForward

SpecWebhooks == InitWebhooks /\ [][NextWebhooks]_vars

\* What each receiver has answered, and whether its processing has begun.
Answered == { runs[1].response, unin.response } \cup
            (IF req.op = "smartleadReply" THEN {req.response} ELSE {})

OrderProcessing == runs[1].pc # "idle"
UninstallProcessing == unin.pc # 0
SmartleadProcessing == req.op = "smartleadReply" /\ (req.pc # "return" \/ req.steps > 0)

\* A step that answers 401.
Rejects ==
  \/ runs[1].response # 401 /\ runs'[1].response = 401
  \/ unin.response # 401 /\ unin'.response = 401
  \/ req.pc = "idle" /\ req'.pc # "idle" /\ req'.response = 401

----------------------------------------------------------------------------
(* OAuth callback, token exchange and the auth middleware, web/server.js *)

\* Offline access tokens the platform may hand out.
PlatformTokens == {"off1", "off2"}

\* The query of a callback without its hmac: the pairs in sorted key order, as
\* verifyHmac joins them.
Message(code, shop, state) == << <<"code", code>>, <<"shop", shop>>, <<"state", state>> >>

\* HMAC-SHA256 of a message under a secret, kept symbolic: equal digests come
\* from equal secrets and equal messages only.
Hmac(secret, message) == [secret |-> secret, message |-> message]

ApiSecret == "app-secret"

\* A query without hmac.
NoHmac == [none |-> TRUE]

\* verifyHmac(query): false without hmac, else the digests must be equal.
verifyHmac(query) ==
  /\ query.hmac # NoHmac
  /\ query.hmac = Hmac(ApiSecret, Message(query.code, query.shop, query.state))

\* The callbacks that can arrive for the tenant: signed by the platform, signed
\* for another shop, signed with another secret, and unsigned.
Queries ==
  UNION { { [code |-> "c1", shop |-> s, state |-> "n1", hmac |-> h] :
              h \in { NoHmac,
                      Hmac(ApiSecret, Message("c1", s, "n1")),
                      Hmac(ApiSecret, Message("c1", "s2", "n1")),
                      Hmac("guess", Message("c1", s, "n1")) } } : s \in Tenants }

\* prisma.session.upsert by id 'offline_<shop>'.  An undefined access token
\* leaves a stored token as it is.
UpsertSession(table, s, access_token) ==
  [table EXCEPT ![s] =
     IF @ = NoRow THEN [id |-> "offline_" \o s, shop |-> s, accessToken |-> access_token]
     ELSE IF access_token = "" THEN @
     ELSE [@ EXCEPT !.accessToken = access_token]]

\* prisma.oceSettings.upsert({ where: { shop }, create: { shop }, update: {} })
EnsureOceSettings(table, s) ==
  [table EXCEPT ![s] = IF @ = NoRow THEN DefaultOceSettings ELSE @]

WebhookTopics == << "orders/create", "app/uninstalled" >>

MaxWebhookCalls == 4

\* A request the server is free to take.
Free == req.pc \in {"idle", "return"}

\* Room left in the log of webhook registrations for one more request.
Room == Len(cf.calls) + Len(WebhookTopics) <= MaxWebhookCalls

\* GET /auth/callback up to its first await.
CallbackStart(query) ==
  /\ Free /\ Room
  /\ req' = IF verifyHmac(query)
              THEN [op |-> "callback", pc |-> "fetch", shop |-> query.shop,
                    query |-> query, access_token |-> "", response |-> 0,
                    stored |-> FALSE, registered |-> 0]
              ELSE [op |-> "callback", pc |-> "return", shop |-> query.shop,
                    query |-> query, access_token |-> "", response |-> 400,
                    stored |-> FALSE, registered |-> 0]
  /\ UNCHANGED <<db, runs, unin, oce, cf, supa>>

\* The code is traded for a token: the platform returns one, returns an error
\* body without access_token, or the fetch raises.
CallbackFetch ==
  /\ req.op = "callback" /\ req.pc = "fetch"
  /\ \/ \E token \in PlatformTokens :
          req' = [req EXCEPT !.pc = "session", !.access_token = token]
     \/ req' = [req EXCEPT !.pc = "session"]
     \/ req' = [req EXCEPT !.pc = "return", !.response = 500]
  /\ UNCHANGED <<db, runs, unin, oce, cf, supa>>

\* session.upsert of the callback and of the token exchange.  Creating a row
\* with an undefined token either raises or stores a row without one, as the
\* column is declared.
StoreSession ==
  /\ req.op \in {"callback", "authenticate"} /\ req.pc = "session"
  /\ \/ /\ db' = [db EXCEPT !.session = UpsertSession(@, req.shop, req.access_token)]
        /\ req' = [req EXCEPT !.pc = "settings", !.stored = TRUE]
     \/ /\ db.session[req.shop] = NoRow /\ req.access_token = ""
        /\ req' = [req EXCEPT !.pc = "return", !.response = 500]
        /\ UNCHANGED db
  /\ UNCHANGED <<runs, unin, oce, cf, supa>>

StoreSettings ==
  /\ req.op \in {"callback", "authenticate"} /\ req.pc = "settings"
  /\ db' = [db EXCEPT !.oceSettings = EnsureOceSettings(@, req.shop)]
  /\ req' = [req EXCEPT !.pc = "webhooks"]
  /\ UNCHANGED <<runs, unin, oce, cf, supa>>

\* registerWebhooks: one POST per topic, a failure only logged.  After the
\* last one the callback redirects into the admin and the middleware re-reads
\* the session.
RegisterWebhook ==
  /\ req.op \in {"callback", "authenticate"} /\ req.pc = "webhooks"
  /\ cf' = [cf EXCEPT !.calls = Append(@, [kind |-> "webhook", shop |-> req.shop,
                                           topic |-> WebhookTopics[req.registered + 1],
                                           token |-> req.access_token])]
  /\ req' = IF req.registered + 1 < Len(WebhookTopics)
              THEN [req EXCEPT !.registered = @ + 1]
            ELSE IF req.op = "callback"
              THEN [req EXCEPT !.registered = @ + 1, !.pc = "return", !.response = 302]
            ELSE [req EXCEPT !.registered = @ + 1, !.pc = "reread"]
  /\ UNCHANGED <<db, runs, unin, oce, supa>>

\* What a bearer token decodes to: nothing sent, a payload naming the shop, or
\* a token that does not decode.
Bearers == {Null, "undecodable"} \cup Tenants

UsableWithoutToken(session) == session # NoRow

\* session && session.accessToken
Usable(session) == session # NoRow /\ session.accessToken # ""

UsableIfStored(session) == session # NoRow

Reauthorize(r) == [r EXCEPT !.pc = "return", !.response = 401, !.reauthorize = TRUE]

PassOn(r, session) == [r EXCEPT !.pc = "return", !.passed = TRUE, !.session = session]

\* authenticate up to the session lookup: the shop comes from the bearer
\* token's payload, else from the query or the x-shop-domain header.
AuthStart(bearer, queryShop) ==
  /\ Free /\ Room
  /\ LET shop == IF bearer \in Shops THEN bearer ELSE queryShop
         begin == [op |-> "authenticate", pc |-> "lookup", shop |-> shop,
                   sessionToken |-> bearer, session |-> NoRow, exchanges |-> 0,
                   access_token |-> "", success |-> FALSE, stored |-> FALSE,
                   registered |-> 0, response |-> 0, reauthorize |-> FALSE,
                   passed |-> FALSE, found |-> FALSE]
     IN req' = IF shop = Null THEN [begin EXCEPT !.pc = "return", !.response = 401]
               ELSE begin
  /\ UNCHANGED <<db, runs, unin, oce, cf, supa>>

\* session.findUnique, then the branch on what it found.
AuthLookup ==
  /\ req.op = "authenticate" /\ req.pc = "lookup"
  /\ LET session == db.session[req.shop]
     IN req' = IF ~Usable(session) /\ req.sessionToken # Null
                 THEN [req EXCEPT !.pc = "exchange"]
               ELSE IF ~Usable(session) THEN Reauthorize(req)
               ELSE PassOn([req EXCEPT !.found = TRUE], session)
  /\ UNCHANGED <<db, runs, unin, oce, cf, supa>>

\* doTokenExchange's fetch: a token, a refusal or a non-JSON page, or a raise.
ExchangeFetch ==
  /\ req.op = "authenticate" /\ req.pc = "exchange"
  /\ \/ \E token \in PlatformTokens :
          req' = [req EXCEPT !.pc = "session", !.exchanges = @ + 1,
                             !.access_token = token]
     \/ req' = [Reauthorize(req) EXCEPT !.exchanges = @ + 1]
  /\ UNCHANGED <<db, runs, unin, oce, cf, supa>>

\* The exchange returned success: the session is read again and checked.
AuthReread ==
  /\ req.op = "authenticate" /\ req.pc = "reread"
  /\ LET session == db.session[req.shop]
         r == [req EXCEPT !.success = TRUE]
     IN req' = IF ~Usable(session) THEN Reauthorize(r) ELSE PassOn(r, session)
  /\ UNCHANGED <<db, runs, unin, oce, cf, supa>>

\* The middleware of the earlier server: the shop from the query or the
\* header, and the session only looked up.
OldAuthStart(queryShop) ==
  /\ Free
  /\ LET begin == [op |-> "authenticateOld", pc |-> "lookup", shop |-> queryShop,
                   sessionToken |-> Null, session |-> NoRow, exchanges |-> 0,
                   response |-> 0, reauthorize |-> FALSE, passed |-> FALSE]
     IN req' = IF queryShop = Null THEN [begin EXCEPT !.pc = "return", !.response = 401]
               ELSE begin
  /\ UNCHANGED <<db, runs, unin, oce, cf, supa>>

OldAuthLookup ==
  /\ req.op = "authenticateOld" /\ req.pc = "lookup"
  /\ LET session == db.session[req.shop]
     IN req' = IF ~UsableIfStored(session)
                 THEN [req EXCEPT !.pc = "return", !.response = 401]
               ELSE PassOn(req, session)
  /\ UNCHANGED <<db, runs, unin, oce, cf, supa>>

\* The tenant before or after its install; the bystander installed.
InitAuth ==
  /\ \E installed \in BOOLEAN :
       db = [InitDb EXCEPT !.session["s1"] = IF installed THEN SessionRow("s1") ELSE NoRow]
  /\ runs = [p \in Procs |-> IdleRun]
  /\ unin = IdleUninstall
  /\ oce = [attempts |-> [k \in OrderKeys |-> 0], received |-> [k \in OrderKeys |-> 0]]
  /\ req = IdleReq
  /\ cf = IdleCf
  /\ supa = IdleSupa

\* Requests one after the other, with an uninstall of the tenant at any time.
NextAuth ==
  \/ \E query \in Queries : CallbackStart(query)
  \/ CallbackFetch
  \/ StoreSession
  \/ StoreSettings
  \/ RegisterWebhook
  \/ \E bearer \in Bearers, queryShop \in {Null} \cup Tenants : AuthStart(bearer, queryShop)
  \/ AuthLookup
  \/ ExchangeFetch
  \/ AuthReread
  \/ \E queryShop \in {Null} \cup Tenants : OldAuthStart(queryShop)
  \/ OldAuthLookup
  \/ \E s \in Tenants : UninstallStart(s, TRUE)
  \/ UninstallStep

SpecAuth == InitAuth /\ [][NextAuth]_vars

\* A middleware request whose bearer token names the tenant.
WithIdentityToken == req.op = "authenticate" /\ req.sessionToken \in Shops

\* The Session of the request's shop holds a token, and which.
Holds(d, token) ==
  /\ d.session[req.shop] # NoRow
  /\ d.session[req.shop].accessToken # ""
  /\ d.session[req.shop].accessToken = token

\* The lookup sends the request to the exchange exactly when no Session with
\* an access token is stored; the exchange is called once at most.
ExchangeWhenNeeded ==
  /\ [][WithIdentityToken /\ req.pc = "lookup" /\ req' # req =>
          /\ (req'.pc = "exchange") = ~(\E token \in {"tok"} \cup PlatformTokens : Holds(db, token))
          /\ req'.pc # "exchange" => req'.passed /\ req'.exchanges = 0]_vars
  /\ [](WithIdentityToken =>
          /\ req.exchanges <= 1
          /\ req.pc \in {"session", "settings", "webhooks", "reread"} => req.exchanges = 1
          /\ req.found => req.exchanges = 0 /\ req.passed)

\* The step at which a successful exchange hands back to the middleware.
ExchangeSucceeds == WithIdentityToken /\ req.pc = "reread" /\ req'.pc = "return"

\* C13 as stated: a request with an identity token and no stored access token
\* makes exactly one exchange call; when the exchange succeeds the Session
\* holds the returned token and the request is passed on; with a stored
\* access token no exchange is made.
C13ExchangeThenProceed ==
  /\ ExchangeWhenNeeded
  /\ [][ExchangeSucceeds =>
          /\ Holds(db, req.access_token)
          /\ req'.passed /\ ~req'.reauthorize]_vars

\* C13: as above, but the request is passed on after a successful exchange
\* when the Session written by the exchange is still stored at the re-read; an
\* uninstall that deleted it in between gets the request 401 with the
\* reauthorize URL.  The exchange's own write stores the returned token.
C13ExchangeThenProceedUnlessPurged ==
  /\ ExchangeWhenNeeded
  /\ [][WithIdentityToken /\ req.pc = "session" /\ req' # req =>
          Holds(db', req.access_token) /\ req.access_token \in PlatformTokens]_vars
  /\ [][ExchangeSucceeds =>
          IF db.session[req.shop] # NoRow
            THEN Holds(db, req.access_token) /\ req'.passed /\ ~req'.reauthorize
            ELSE /\ unin.shop = req.shop /\ unin.pc = Purged
                 /\ ~req'.passed /\ req'.response = 401 /\ req'.reauthorize]_vars

C13Witness ==
  /\ WithIdentityToken /\ req.pc = "return" /\ req.success /\ req.passed
  /\ req.exchanges = 1 /\ Holds(db, req.access_token)
  /\ Len(cf.calls) = 2

\* A request in either middleware, and the step that ends it.
InMiddleware == req.op \in {"authenticate", "authenticateOld"}

MiddlewareEnds == InMiddleware /\ req.pc # "return" /\ req'.pc = "return"

\* C14: the middleware passes a request on only if a Session of the resolved
\* shop with a non-empty access token is stored at that point; a request for a
\* resolved shop that is not passed on is answered 401 with the reauthorize
\* install URL.
C14PassOnlyWithSession ==
  [][MiddlewareEnds =>
       /\ req'.passed => \E token \in {"tok"} \cup PlatformTokens : Holds(db, token)
       /\ ~req'.passed => req'.response = 401
       /\ ~req'.passed /\ req.shop # Null => req'.reauthorize]_vars

\* The callback in progress carries the platform's signature over its query.
Signed ==
  req.query.hmac = Hmac(ApiSecret, Message(req.query.code, req.query.shop, req.query.state))

\* A step of the callback, and the one that ends it with the redirect.
CallbackStep == req'.op = "callback" /\ req' # req

CallbackCompletes == req.op = "callback" /\ req.pc = "webhooks" /\ req'.pc = "return"

\* C15: the callback writes the Session and registers webhooks only when the
\* HMAC verifies; with a missing or wrong hmac it answers 400 and changes no
\* row; a verified callback that completes leaves the one Session
\* 'offline_<shop>' holding the access token the platform returned, with the
\* webhooks registered under that token.
C15CallbackStoresToken ==
  /\ [](req.op = "callback" =>
          /\ (req.response = 400) = ~Signed
          /\ req.pc # "return" \/ req.stored \/ req.registered > 0 => Signed)
  /\ [][CallbackStep /\ ~Signed' => db' = db /\ cf' = cf /\ req'.pc = "return"]_vars
  /\ [][CallbackCompletes =>
          /\ req'.response = 302
          /\ req.access_token \in PlatformTokens
          /\ Holds(db, req.access_token)
          /\ \A i \in 1..Len(WebhookTopics) :
               cf'.calls[Len(cf'.calls) - Len(WebhookTopics) + i] =
                 [kind |-> "webhook", shop |-> req.shop, topic |-> WebhookTopics[i],
                  token |-> req.access_token]]_vars

----------------------------------------------------------------------------
(* GmailService.request and refreshAccessToken *)

\* Statuses the Gmail API may answer, and 0 for a fetch that raises.
GmailStatuses == {0, 200, 401, 403}

\* The access tokens the token endpoint may issue.
FreshTokens == {"at1", "at2"}

RefreshOnEvery401(status, retried, refreshToken) == status = 401 /\ refreshToken # ""

\* response.status === 401 && !retried && this.refreshToken
ShouldRefresh(status, retried, refreshToken) ==
  status = 401 /\ ~retried /\ refreshToken # ""

\* One fetch of request(): the refresh branch, a returned body, or a raise.
GmailAttempt(status) ==
  /\ req.op = "gmailRequest" /\ req.pc = "fetch"
  /\ cf' = [cf EXCEPT !.calls = Append(@, [kind |-> "gmail", status |-> status,
                                           token |-> req.accessToken])]
  /\ req' = IF status = 0 THEN [req EXCEPT !.pc = "raised"]
            ELSE IF ShouldRefresh(status, req.retried, req.refreshToken)
              THEN [req EXCEPT !.pc = "refresh"]
            ELSE IF status = 200 THEN [req EXCEPT !.pc = "returned"]
            ELSE [req EXCEPT !.pc = "raised"]
  /\ UNCHANGED <<db, runs, unin, oce, supa>>

\* refreshAccessToken, then the recursive call with retried = true.
GmailRefresh ==
  /\ req.op = "gmailRequest" /\ req.pc = "refresh"
  /\ \/ \E token \in FreshTokens :
          req' = [req EXCEPT !.pc = "fetch", !.retried = TRUE, !.refreshes = @ + 1,
                             !.accessToken = token, !.issued = token]
     \/ req' = [req EXCEPT !.pc = "raised", !.refreshes = @ + 1]
  /\ UNCHANGED <<db, runs, unin, oce, cf, supa>>

\* A client as the constructor leaves it, with a call to request() entered.
InitGmail ==
  /\ \E accessToken \in {"at0", ""}, refreshToken \in {"", "rt"},
        method \in {"GET", "POST"}, body \in {"none", "string", "object"} :
       req = [op |-> "gmailRequest", pc |-> "fetch", accessToken |-> accessToken,
              refreshToken |-> refreshToken, method |-> method, body |-> body,
              retried |-> FALSE, refreshes |-> 0, issued |-> ""]
  /\ db = InitDb
  /\ runs = [p \in Procs |-> IdleRun]
  /\ unin = IdleUninstall
  /\ oce = [attempts |-> [k \in OrderKeys |-> 0], received |-> [k \in OrderKeys |-> 0]]
  /\ cf = IdleCf
  /\ supa = IdleSupa

NextGmail ==
  \/ \E status \in GmailStatuses : GmailAttempt(status)
  \/ GmailRefresh

\* Every fetch is answered or raises.
SpecGmail == InitGmail /\ [][NextGmail]_vars /\ WF_vars(NextGmail)

GmailEnded == req.pc \in {"returned", "raised"}

Attempts == Len(cf.calls)

\* C16: one request() makes at most one refresh and at most two HTTP
\* attempts; a first 401 with a refresh token leads to one refresh and, if it
\* succeeds, to one retry under the new token, which is then the client's
\* accessToken; a 401 on the retry raises; the call always ends.
C16RefreshOnceRetryOnce ==
  /\ [](/\ req.refreshes <= 1 /\ Attempts <= 2
        /\ req.refreshes = 1 =>
             /\ Attempts >= 1 /\ cf.calls[1].status = 401 /\ req.refreshToken # ""
        /\ Attempts = 2 =>
             /\ req.refreshes = 1 /\ req.issued \in FreshTokens
             /\ req.accessToken = req.issued /\ cf.calls[2].token = req.issued
             /\ GmailEnded
             /\ cf.calls[2].status # 200 => req.pc = "raised"
        /\ GmailEnded /\ Attempts = 1 /\ cf.calls[1].status = 401 /\ req.refreshToken # "" =>
             req.refreshes = 1 /\ req.issued = "" /\ req.pc = "raised"
        /\ req.issued # "" => req.accessToken = req.issued
        /\ req.pc = "returned" => cf.calls[Attempts].status = 200)
  /\ <>GmailEnded

C16Witness ==
  /\ req.op = "gmailRequest" /\ req.pc = "raised" /\ Attempts = 2
  /\ cf.calls[1].status = 401 /\ cf.calls[2].status = 401
  /\ req.refreshes = 1 /\ req.accessToken \in FreshTokens

----------------------------------------------------------------------------
(* extractExposureIds, web/backend/routes/webhooks.js *)

MaxAttributes == 2
MaxLineItems == 2

Space == " "
Quote == "\""
DigitChars == {"7", "8"}

\* String.prototype.trim on a sequence of characters.
RECURSIVE TrimStart(_)
TrimStart(s) == IF s # <<>> /\ Head(s) = Space THEN TrimStart(Tail(s)) ELSE s

RECURSIVE TrimEnd(_)
TrimEnd(s) ==
  IF s # <<>> /\ s[Len(s)] = Space THEN TrimEnd(SubSeq(s, 1, Len(s) - 1)) ELSE s

Trim(s) == TrimEnd(TrimStart(s))

\* String.prototype.split(","): the pieces between the commas.
RECURSIVE SplitFrom(_, _, _)
SplitFrom(s, piece, pieces) ==
  IF s = <<>> THEN Append(pieces, piece)
  ELSE IF Head(s) = "," THEN SplitFrom(Tail(s), <<>>, Append(pieces, piece))
  ELSE SplitFrom(Tail(s), Append(piece, Head(s)), pieces)

Split(s) == SplitFrom(s, <<>>, <<>>)

\* An id as JavaScript holds it: a string or a number, with its text.
StringId(text) == [kind |-> "string", text |-> text]
NumberId(text) == [kind |-> "number", text |-> text]

\* .map((s) => s.trim()).filter(Boolean) over the pieces.
TrimmedPieces(pieces) ==
  SelectSeq([i \in 1..Len(pieces) |-> StringId(Trim(pieces[i]))], LAMBDA id : id.text # <<>>)

IsNumber(s) == s # <<>> /\ \A i \in 1..Len(s) : s[i] \in DigitChars

IsQuoted(s) ==
  /\ Len(s) >= 2 /\ s[1] = Quote /\ s[Len(s)] = Quote
  /\ \A i \in 2..(Len(s) - 1) : s[i] # Quote

IsScalar(s) == IsNumber(s) \/ IsQuoted(s)

Scalar(s) == IF IsNumber(s) THEN NumberId(s) ELSE StringId(SubSeq(s, 2, Len(s) - 1))

\* JSON.parse on the values that occur: numbers, quoted strings and arrays of
\* them parse, anything else throws.
JsonParse(value) ==
  LET text == Trim(value)
      inner == SubSeq(text, 2, Len(text) - 1)
      elements == [i \in 1..Len(Split(inner)) |-> Trim(Split(inner)[i])]
  IN IF IsScalar(text) THEN [throws |-> FALSE, isArray |-> FALSE, ids |-> <<Scalar(text)>>]
     ELSE IF Len(text) >= 2 /\ text[1] = "[" /\ text[Len(text)] = "]"
       THEN IF Trim(inner) = <<>> THEN [throws |-> FALSE, isArray |-> TRUE, ids |-> <<>>]
            ELSE IF \A i \in 1..Len(elements) : IsScalar(elements[i])
              THEN [throws |-> FALSE, isArray |-> TRUE,
                    ids |-> [i \in 1..Len(elements) |-> Scalar(elements[i])]]
            ELSE [throws |-> TRUE, isArray |-> FALSE, ids |-> <<>>]
     ELSE [throws |-> TRUE, isArray |-> FALSE, ids |-> <<>>]

\* [...new Set(ids)]: the first occurrence of each id, in order.
RECURSIVE Dedupe(_, _)
Dedupe(ids, kept) ==
  IF ids = <<>> THEN kept
  ELSE IF \E i \in 1..Len(kept) : kept[i] = Head(ids) THEN Dedupe(Tail(ids), kept)
  ELSE Dedupe(Tail(ids), Append(kept, Head(ids)))

PluralNames == {"_oce_exposure_ids", "oce_exposure_ids"}
SingularNames == {"_oce_exposure_id", "oce_exposure_id"}

\* What one note attribute adds.
FromAttribute(attr) ==
  (IF attr.name \in PluralNames
     THEN LET parsed == JsonParse(attr.value)
          IN IF parsed.throws THEN TrimmedPieces(Split(attr.value))
             ELSE IF parsed.isArray THEN parsed.ids
             ELSE <<>>
     ELSE <<>>)
  \o (IF attr.name \in SingularNames THEN <<StringId(attr.value)>> ELSE <<>>)

\* What one line item adds.
FromLineItem(item) ==
  LET own == SelectSeq(item.properties, LAMBDA prop : prop.name = "_oce_exposure_id")
  IN [i \in 1..Len(own) |-> StringId(own[i].value)]

RECURSIVE Flatten(_)
Flatten(lists) == IF lists = <<>> THEN <<>> ELSE Head(lists) \o Flatten(Tail(lists))

extractExposureIds(orderData) ==
  Dedupe(Flatten([i \in 1..Len(orderData.note_attributes) |->
                    FromAttribute(orderData.note_attributes[i])])
         \o Flatten([i \in 1..Len(orderData.line_items) |->
                       FromLineItem(orderData.line_items[i])]),
         <<>>)

\* Attribute values as the storefront script may write them.
AttributeValues ==
  { <<"a", ",", "b">>,
    <<" ", "b", ",", ",", "a", " ">>,
    <<"[", "\"", "a", "\"", ",", "\"", "b", "\"", "]">>,
    <<"7">>,
    <<" ", "a">> }

AttributeNames == {"_oce_exposure_ids", "oce_exposure_ids", "_oce_exposure_id", "note"}

Attributes == [name : AttributeNames, value : AttributeValues]

Properties == [name : {"_oce_exposure_id", "gift"}, value : {<<"a">>, <<"c">>}]

LineItems == { [properties |-> <<>>] } \cup { [properties |-> <<prop>>] : prop \in Properties }

SeqsUpTo(S, n) == UNION { [1..k -> S] : k \in 0..n }

OrderPayloads ==
  [note_attributes : SeqsUpTo(Attributes, MaxAttributes),
   line_items : SeqsUpTo(LineItems, MaxLineItems)]

\* An order payload received, its ids not yet extracted.
InitExtract ==
  /\ \E orderData \in OrderPayloads :
       req = [op |-> "extractExposureIds", pc |-> "call", orderData |-> orderData,
              exposureIds |-> <<>>]
  /\ db = InitDb
  /\ runs = [p \in Procs |-> IdleRun]
  /\ unin = IdleUninstall
  /\ oce = [attempts |-> [k \in OrderKeys |-> 0], received |-> [k \in OrderKeys |-> 0]]
  /\ cf = IdleCf
  /\ supa = IdleSupa

ExtractExposureIdsCall ==
  /\ req.op = "extractExposureIds" /\ req.pc = "call"
  /\ req' = [req EXCEPT !.pc = "return", !.exposureIds = extractExposureIds(req.orderData)]
  /\ UNCHANGED <<db, runs, unin, oce, cf, supa>>

NextExtract == ExtractExposureIdsCall

SpecExtract == InitExtract /\ [][NextExtract]_vars

\* The ids the claim names: the plural note attributes, read as a JSON array
\* or else as a comma-separated list, and the line-item properties.
ClaimedOfAttribute(attr) ==
  IF attr.name \notin PluralNames THEN {}
  ELSE IF ~JsonParse(attr.value).throws /\ JsonParse(attr.value).isArray
    THEN Range(JsonParse(attr.value).ids)
  ELSE Range(TrimmedPieces(Split(attr.value)))

ClaimedIds(orderData) ==
  UNION { ClaimedOfAttribute(orderData.note_attributes[i]) :
            i \in 1..Len(orderData.note_attributes) }
  \cup UNION { Range(FromLineItem(orderData.line_items[i])) :
                 i \in 1..Len(orderData.line_items) }

Extracted == req.op = "extractExposureIds" /\ req.pc = "return"

\* C17: the result holds exactly the ids of the plural note attributes (JSON
\* array, else comma-separated, trimmed, empties dropped) and of the line-item
\* properties, each once.
C17ExactIdSet ==
  Extracted =>
    /\ Range(req.exposureIds) = ClaimedIds(req.orderData)
    /\ Cardinality(Range(req.exposureIds)) = Len(req.exposureIds)

----------------------------------------------------------------------------
(* Tenant ownership: assignToCampaign, markAsRead, provisionDns, uninstall *)

AccountIds == {"a1", "a9"}
CampaignIds == {"c1", "c9"}
ConversationIds == {"v1", "v9"}

\* The tenant that owns the ids ending in 1, and the one that owns those in 9.
OwnerOf(id) == IF id \in {"d1", "a1", "c1", "v1"} THEN "s1" ELSE "s2"

AccountRow(id) ==
  [id |-> id, shop |-> OwnerOf(id), emailAddress |-> Mailbox(OwnerOf(id)),
   smartleadAccountId |-> "sl-" \o id]

CampaignRow(id) ==
  [id |-> id, shop |-> OwnerOf(id), name |-> "spring",
   smartleadCampaignId |-> "sl-" \o id, emailAccountIds |-> <<>>]

ConversationRow(id) == [id |-> id, shop |-> OwnerOf(id), isRead |-> FALSE]

DomainRow(id) == [WebDomain(Null, FALSE) EXCEPT !.id = id, !.shop = OwnerOf(id)]

FunctionDomainRow(id) == [FunctionDomain(Null, FALSE) EXCEPT !.id = id, !.org_id = OwnerOf(id)]

OwnedById(table, id, s) == { r \in table : r.id = id }

\* prisma.<model>.findFirst({ where: { id, shop } })
Owned(table, id, s) == { r \in table : r.id = id /\ r.shop = s }

\* prisma.<model>.update({ where: { id }, data }) on a table kept as a set.
UpdateById(table, id, field, value) ==
  { IF r.id = id THEN [r EXCEPT ![field] = value] ELSE r : r \in table }

Thrown500(r, message) == [r EXCEPT !.pc = "return", !.reply = Fail(500, <<message>>)]

\* assignToCampaign up to the campaign lookup: the account of the tenant.
AssignToCampaignStart(s, accountId, campaignId) ==
  /\ req.pc = "idle"
  /\ LET found == Owned(db.emailAccount, accountId, s)
         begin == [op |-> "assignToCampaign", pc |-> "campaign", shop |-> s,
                   accountId |-> accountId, campaignId |-> campaignId,
                   account |-> NoRow, campaign |-> NoRow, reply |-> NoRow]
     IN req' = IF found = {} THEN Thrown500(begin, "Email account not found")
               ELSE [begin EXCEPT !.account = CHOOSE r \in found : TRUE]
  /\ UNCHANGED <<db, runs, unin, oce, cf, supa>>

AssignCampaign ==
  /\ req.op = "assignToCampaign" /\ req.pc = "campaign"
  /\ LET found == Owned(db.outreachCampaign, req.campaignId, req.shop)
     IN req' = IF found = {} THEN Thrown500(req, "Campaign not found")
               ELSE [req EXCEPT !.pc = "client", !.campaign = CHOOSE r \in found : TRUE]
  /\ UNCHANGED <<db, runs, unin, oce, cf, supa>>

\* getServiceClients(shop) and the Smartlead client it builds.
AssignClient ==
  /\ req.op = "assignToCampaign" /\ req.pc = "client"
  /\ LET settings == db.emailSettings[req.shop]
     IN req' = IF settings = NoRow THEN Thrown500(req, "Email settings not configured")
               ELSE IF settings.smartleadApiKey = <<>>
                 THEN Thrown500(req, "Smartlead API key not configured")
               ELSE [req EXCEPT !.pc = "add"]
  /\ UNCHANGED <<db, runs, unin, oce, cf, supa>>

\* smartlead.addEmailsToCampaign, which may raise.
AssignAdd ==
  /\ req.op = "assignToCampaign" /\ req.pc = "add"
  /\ \/ /\ cf' = [cf EXCEPT !.calls = Append(@, [kind |-> "addEmailsToCampaign",
                                                 campaign |-> req.campaign.smartleadCampaignId,
                                                 account |-> req.account.smartleadAccountId])]
        /\ req' = [req EXCEPT !.pc = "update"]
     \/ /\ req' = Thrown500(req, "Smartlead API error")
        /\ UNCHANGED cf
  /\ UNCHANGED <<db, runs, unin, oce, supa>>

\* The campaign's emailAccountIds, as read with the campaign, written back by
\* id with the account added unless they include it; the update raises when
\* the row is gone.
AssignUpdate ==
  /\ req.op = "assignToCampaign" /\ req.pc = "update"
  /\ IF req.accountId \in Range(req.campaign.emailAccountIds)
       THEN /\ req' = [req EXCEPT !.pc = "return", !.reply = [status |-> 200]]
            /\ UNCHANGED db
     ELSE IF \E r \in db.outreachCampaign : r.id = req.campaignId
       THEN /\ db' = [db EXCEPT !.outreachCampaign =
                        UpdateById(@, req.campaignId, "emailAccountIds",
                                   Append(req.campaign.emailAccountIds, req.accountId))]
            /\ req' = [req EXCEPT !.pc = "return", !.reply = [status |-> 200]]
       ELSE /\ req' = Thrown500(req, "P2025")
            /\ UNCHANGED db
  /\ UNCHANGED <<runs, unin, oce, cf, supa>>

\* markAsRead up to the update: the conversation of the tenant.
MarkAsReadStart(s, conversationId) ==
  /\ req.pc = "idle"
  /\ LET found == Owned(db.emailConversation, conversationId, s)
         begin == [op |-> "markAsRead", pc |-> "update", shop |-> s,
                   conversationId |-> conversationId, conversation |-> NoRow,
                   reply |-> NoRow]
     IN req' = IF found = {} THEN Thrown500(begin, "Conversation not found")
               ELSE [begin EXCEPT !.conversation = CHOOSE r \in found : TRUE]
  /\ UNCHANGED <<db, runs, unin, oce, cf, supa>>

MarkAsReadUpdate ==
  /\ req.op = "markAsRead" /\ req.pc = "update"
  /\ IF \E r \in db.emailConversation : r.id = req.conversationId
       THEN /\ db' = [db EXCEPT !.emailConversation =
                        UpdateById(@, req.conversationId, "isRead", TRUE)]
            /\ req' = [req EXCEPT !.pc = "return", !.reply = [status |-> 200]]
       ELSE /\ req' = Thrown500(req, "P2025")
            /\ UNCHANGED db
  /\ UNCHANGED <<runs, unin, oce, cf, supa>>

\* Two tenants, each with a domain, a mailbox, a campaign and a conversation.
OwnershipDb ==
  [InitDb EXCEPT
     !.emailSettings["s1"] =
        [WebSettings("s1", RawLong, AccountId, [f \in Range(required) |-> Filled])
           EXCEPT !.smartleadApiKey = RawLong],
     !.emailDomain = { DomainRow(id) : id \in DomainIds },
     !.emailAccount = { AccountRow(id) : id \in AccountIds },
     !.outreachCampaign = { CampaignRow(id) : id \in CampaignIds },
     !.emailConversation = { ConversationRow(id) : id \in ConversationIds }]

OwnershipSupa ==
  [email_settings |->
     FunctionSettings("s1", RawLong, AccountId, [whois |-> [f \in Range(required) |-> Filled]]),
   email_domains |-> { FunctionDomainRow(id) : id \in DomainIds }]

InitOwnership ==
  /\ db = OwnershipDb
  /\ supa = OwnershipSupa
  /\ runs = [p \in Procs |-> IdleRun]
  /\ unin = IdleUninstall
  /\ oce = [attempts |-> [k \in OrderKeys |-> 0], received |-> [k \in OrderKeys |-> 0]]
  /\ req = IdleReq
  /\ cf = IdleCf

\* One request of the tenant, with ids of either tenant, and its uninstall.
NextOwnership ==
  \/ \E s \in Tenants, accountId \in AccountIds, campaignId \in CampaignIds :
       AssignToCampaignStart(s, accountId, campaignId)
  \/ AssignCampaign
  \/ AssignClient
  \/ AssignAdd
  \/ AssignUpdate
  \/ \E s \in Tenants, conversationId \in ConversationIds : MarkAsReadStart(s, conversationId)
  \/ MarkAsReadUpdate
  \/ \E s \in Tenants, domainId \in DomainIds, providerConfig \in Providers \cup {NoRow} :
       ProvisionDnsStart(s, domainId, providerConfig)
  \/ \E orgId \in Tenants, domain_id \in DomainIds, providerConfig \in Providers \cup {NoRow} :
       HandleProvisionDnsStart(orgId, domain_id, providerConfig)
  \/ ProvisionClient
  \/ EnsureZone
  \/ CreateMx
  \/ CreateSpf
  \/ CreateDkim
  \/ CreateDmarc
  \/ ProvisionPersist
  \/ \E s \in Tenants : UninstallStart(s, TRUE)
  \/ UninstallStep

SpecOwnership == InitOwnership /\ [][NextOwnership]_vars

\* The rows of the store that tenant s does not own.
RowsOfOthers(d, f, s) ==
  [ emailDomain |-> { r \in d.emailDomain : r.shop # s },
    emailAccount |-> { r \in d.emailAccount : r.shop # s },
    outreachCampaign |-> { r \in d.outreachCampaign : r.shop # s },
    emailConversation |-> { r \in d.emailConversation : r.shop # s },
    videoAsset |-> { r \in d.videoAsset : r.shop # s },
    emailSettings |-> [k \in DOMAIN d.emailSettings \ {s} |-> d.emailSettings[k]],
    oceSettings |-> [k \in DOMAIN d.oceSettings \ {s} |-> d.oceSettings[k]],
    session |-> [k \in DOMAIN d.session \ {s} |-> d.session[k]],
    orderSync |-> [k \in { j \in DOMAIN d.orderSync : j[1] # s } |-> d.orderSync[k]],
    email_domains |-> { r \in f.email_domains : r.org_id # s } ]

\* The rows a request has loaded.
Loaded ==
  (IF "account" \in DOMAIN req THEN {req.account} ELSE {})
  \cup (IF "campaign" \in DOMAIN req THEN {req.campaign} ELSE {})
  \cup (IF "conversation" \in DOMAIN req THEN {req.conversation} ELSE {})

\* C18: an operation of tenant S loads only rows of S and leaves every row of
\* every other tenant as it was, also when it is given another tenant's
\* domain, account, campaign or conversation id, and also during and after
\* the uninstall of S.
C18OnlyOwnRows ==
  /\ RowsOfOthers(db, supa, "s1") = RowsOfOthers(OwnershipDb, OwnershipSupa, "s1")
  /\ \A r \in Loaded : r = NoRow \/ r.shop = req.shop
  /\ "id" \in DOMAIN req /\ req.pc # "return" => OwnerOf(req.id) = req.shop
  /\ "reply" \in DOMAIN req /\ req.reply # NoRow /\ req.reply.status = 200 =>
       /\ "id" \in DOMAIN req => OwnerOf(req.id) = req.shop
       /\ "campaignId" \in DOMAIN req =>
            OwnerOf(req.campaignId) = req.shop /\ OwnerOf(req.accountId) = req.shop
       /\ "conversationId" \in DOMAIN req => OwnerOf(req.conversationId) = req.shop

C18Witness ==
  /\ unin.pc = Purged
  /\ req.op = "markAsRead" /\ req.conversationId = "v1" /\ req.reply # NoRow
  /\ req.reply.status = 500 /\ req.conversation # NoRow
  /\ \E r \in db.emailConversation : r.shop = "s2" /\ ~r.isRead

----------------------------------------------------------------------------
(* The main handler of netlify/functions/cloudflare-domains.js *)

FunctionSecret == "fn-secret"

\* An Authorization header as a scheme prefix and the rest; both empty when
\* the header is absent.
AuthHeaders ==
  { [prefix |-> "", rest |-> ""],
    [prefix |-> "Bearer ", rest |-> FunctionSecret],
    [prefix |-> "bearer ", rest |-> FunctionSecret],
    [prefix |-> "", rest |-> FunctionSecret],
    [prefix |-> "Basic ", rest |-> FunctionSecret],
    [prefix |-> "Bearer ", rest |-> "guess"] }

\* authHeader.replace(/^Bearer\s+/i, "")
StripBearer(header) ==
  IF header.prefix \in {"Bearer ", "bearer "} THEN header.rest
  ELSE header.prefix \o header.rest

Events ==
  [ httpMethod : {"OPTIONS", "GET", "POST"},
    secret : {Null, FunctionSecret},
    authorization : AuthHeaders,
    querySecret : {Null, FunctionSecret, "guess"},
    xOrgId : {Null, "s1"},
    queryOrgId : {Null, "", "s1"},
    body : {"none", "json", "malformed"},
    route : {"", "list", "search", "nowhere"} ]

AuthenticateOpen(event) == TRUE

\* authenticate(event): open without FUNCTION_SECRET, else the bearer token
\* or ?secret= must equal it.
authenticate(event) ==
  \/ event.secret = Null
  \/ StripBearer(event.authorization) = event.secret
  \/ event.querySecret = event.secret

\* event.headers["x-org-id"] || event.queryStringParameters?.org_id
OrgIdOf(event) == IF event.xOrgId # Null THEN event.xOrgId ELSE event.queryOrgId

\* The method each route accepts.
RouteMethod(route) == IF route \in {"list", ""} THEN "GET" ELSE "POST"

Answer(status) == [statusCode |-> status]

\* The main handler up to the route handler's first await.
FunctionRequest(event) ==
  /\ req.pc = "idle"
  /\ LET begin == [op |-> "function", pc |-> "return", event |-> event,
                   orgId |-> Null, reply |-> NoRow]
         orgId == OrgIdOf(event)
     IN req' =
       IF event.httpMethod = "OPTIONS" THEN [begin EXCEPT !.reply = Answer(204)]
       ELSE IF ~authenticate(event) THEN [begin EXCEPT !.reply = Answer(401)]
       ELSE IF event.body = "malformed" THEN [begin EXCEPT !.reply = Answer(500)]
       ELSE IF orgId \in {Null, ""} THEN [begin EXCEPT !.reply = Answer(400)]
       ELSE IF event.route = "nowhere" THEN [begin EXCEPT !.reply = Answer(404)]
       ELSE IF event.httpMethod # RouteMethod(event.route)
         THEN [begin EXCEPT !.reply = Answer(IF event.route = "" THEN 404 ELSE 405)]
       ELSE [begin EXCEPT !.pc = "handler", !.orgId = orgId]
  /\ UNCHANGED <<db, runs, unin, oce, cf, supa>>

\* The route handler: its datastore read for the organisation, then its
\* answer or the error the catch turns into a 500.
FunctionHandler ==
  /\ req.op = "function" /\ req.pc = "handler"
  /\ cf' = [cf EXCEPT !.calls = Append(@, [kind |-> "datastore", org_id |-> req.orgId])]
  /\ \E status \in {200, 400, 500} :
       req' = [req EXCEPT !.pc = "return", !.reply = Answer(status)]
  /\ UNCHANGED <<db, runs, unin, oce, supa>>

InitFunction ==
  /\ req = IdleReq
  /\ cf = IdleCf
  /\ db = InitDb
  /\ supa = OwnershipSupa
  /\ runs = [p \in Procs |-> IdleRun]
  /\ unin = IdleUninstall
  /\ oce = [attempts |-> [k \in OrderKeys |-> 0], received |-> [k \in OrderKeys |-> 0]]

NextFunction ==
  \/ \E event \in Events : FunctionRequest(event)
  \/ FunctionHandler

SpecFunction == InitFunction /\ [][NextFunction]_vars

\* The request passes the shared-secret check, and carries an org id.
PassesSecret(event) ==
  \/ event.secret = Null
  \/ event.authorization \in { [prefix |-> p, rest |-> event.secret] : p \in {"Bearer ", "bearer ", ""} }
  \/ event.querySecret = event.secret

CarriesOrgId(event) ==
  event.xOrgId = "s1" \/ (event.xOrgId = Null /\ event.queryOrgId = "s1")

ReachedHandler == req.pc = "handler" \/ cf.calls # <<>>

Served == req.op = "function" /\ req.event.httpMethod # "OPTIONS"

\* What holds of every request: a handler is reached only past the secret
\* check and with an org id, a failed check is answered 401, and the
\* datastore is called by handlers only.
GateHolds ==
  Served =>
    /\ ReachedHandler => PassesSecret(req.event) /\ CarriesOrgId(req.event)
    /\ ~PassesSecret(req.event) => req.reply = Answer(401) /\ cf.calls = <<>>
    /\ ~CarriesOrgId(req.event) => cf.calls = <<>> /\ req.pc = "return"

----------------------------------------------------------------------------
(* handleOrderCreated to its end *)

\* The tenant configured, no order synced yet.
InitOrdersLive ==
  /\ db = [InitDb EXCEPT !.oceSettings["s1"].apiKey = "key"]
  /\ runs = [p \in Procs |-> IdleRun]
  /\ unin = IdleUninstall
  /\ oce = [attempts |-> [k \in OrderKeys |-> 0], received |-> [k \in OrderKeys |-> 0]]
  /\ req = IdleReq
  /\ cf = IdleCf
  /\ supa = IdleSupa

\* Deliveries of the order webhook, overlapping, and the tenant's uninstall.
NextOrdersLive ==
  \/ \E p \in Procs, s \in Tenants, o \in Orders : Deliver(p, s, o, TRUE)
  \/ \E p \in Procs : OrderStep(p)
  \/ \E s \in Tenants : UninstallStart(s, TRUE)
  \/ UninstallStep

\* Every await of a run and of the purge is answered.
SpecOrdersLive ==
  /\ InitOrdersLive /\ [][NextOrdersLive]_vars
  /\ \A p \in Procs : WF_vars(OrderStep(p))
  /\ WF_vars(UninstallStep)

\* The step that ends a run that was not skipped.
Completes(p) ==
  runs[p].pc \in {"markSent", "markFailed"} /\ runs'[p].pc = "done"

\* The row of the run's order after that step: it is the row the run upserted
\* and carries the outcome of the run's sendOrder call.
FinalRow(p) ==
  LET row == db'.orderSync[Key(p)] IN
  /\ row # NoRow /\ row.id = runs[p].syncId
  /\ IF runs[p].sent # Thrown /\ runs[p].pc = "markSent"
       THEN /\ row.status = "sent"
            /\ row.oceOrderId = (IF runs[p].sent.order_id = "" THEN Null
                                 ELSE runs[p].sent.order_id)
            /\ row.commission = (IF runs[p].sent.commission = 0 THEN NoCommission
                                 ELSE runs[p].sent.commission)
            /\ runs'[p].result.status = "sent"
       ELSE /\ row.status = "failed" /\ row.errorMessage # Null
            /\ runs'[p].result.status = "failed"
            /\ runs[p].sent = Thrown

\* The row the run upserted is no longer stored.
RowGone(p) ==
  \A k \in DOMAIN db.orderSync : db.orderSync[k] = NoRow \/ db.orderSync[k].id # runs[p].syncId

EveryRunEnds == \A p \in Procs : (runs[p].pc = "send") ~> (runs[p].pc = "done")

\* C20 as stated: every run that is not skipped ends, and ends with the row
\* of its order 'sent', with the vendor's order id and commission, when
\* sendOrder succeeded and 'failed', with the error message, when it raised.
C20FinalStatus ==
  /\ EveryRunEnds
  /\ [][\A p \in Procs : Completes(p) => FinalRow(p)]_vars

\* C20: as above while the row the run upserted is still stored; when an
\* uninstall of the tenant deleted it before the run's last update, that
\* update raises, the run ends with the error and writes no status.
C20FinalStatusUnlessPurged ==
  /\ EveryRunEnds
  /\ [][\A p \in Procs : Completes(p) =>
          IF RowGone(p)
            THEN /\ runs'[p].result.status = "threw" /\ db' = db
                 /\ unin.shop = runs[p].shop
                 /\ \E i \in 1..Len(PurgeOrder) : PurgeOrder[i] = "orderSync" /\ unin.pc > i
            ELSE FinalRow(p)]_vars

C20Witness ==
  /\ \A p \in Procs : runs[p].pc = "done"
  /\ runs[1].result.status = "sent" /\ runs[2].result.status = "failed"
  /\ db.orderSync[<<"s1", "1001">>] # NoRow
  /\ db.orderSync[<<"s1", "1001">>].status = "failed"

----------------------------------------------------------------------------
(* "Ensure we have a zone ID" of provisionDns and handleProvisionDns, one
   step per await: getZoneId, createZone, the update of the row *)

NeedsZoneAlways(zoneId) == TRUE

\* `if (!zoneId)`
NeedsZone(zoneId) == zoneId = Null

ZoneCalls == {"getZoneId", "createZone"}

\* The locals of provisionColdEmailDns as a provision request enters it.
EnterProvision(r) ==
  Advance([ op |-> "provisionColdEmailDns", pc |-> "mx", i |-> 1,
            domain |-> r.domain, provider |-> ProviderOr(r.providerConfig),
            results |-> NoResults, raised |-> FALSE,
            caller |-> r.op, shop |-> r.shop, id |-> r.id ])

\* The row already has a zone id: straight to provisionColdEmailDns.
ZoneKnown ==
  /\ req.op \in {"provisionDns", "handleProvisionDns"} /\ req.pc = "zone"
  /\ ~NeedsZone(req.zoneId)
  /\ req' = EnterProvision(req)
  /\ UNCHANGED <<db, runs, unin, oce, cf, supa>>

\* `zoneId = await cf.getZoneId(domain.domain)`: the id of the first zone of
\* that name, null when there is none, or the request raises.
LookupZoneId ==
  /\ req.op \in {"provisionDns", "handleProvisionDns"} /\ req.pc = "zone"
  /\ NeedsZone(req.zoneId)
  /\ \E outcome \in {"found", "none", "raised"} :
       /\ cf' = [cf EXCEPT !.calls = Append(@, Attempt("getZoneId", outcome = "found"))]
       /\ req' = CASE outcome = "found" -> [req EXCEPT !.pc = "persist", !.zoneId = ZoneId]
                   [] outcome = "none"  -> [req EXCEPT !.pc = "create"]
                   [] OTHER -> [req EXCEPT !.pc = "return",
                                           !.reply = Fail(500, <<"Cloudflare API error">>)]
  /\ UNCHANGED <<db, runs, unin, oce, supa>>

\* `const zone = await cf.createZone(domain.domain); zoneId = zone.id`
CreateZone ==
  /\ req.op \in {"provisionDns", "handleProvisionDns"} /\ req.pc = "create"
  /\ \E ok \in BOOLEAN :
       /\ cf' = [cf EXCEPT !.calls = Append(@, Attempt("createZone", ok))]
       /\ req' = IF ok THEN [req EXCEPT !.pc = "persist", !.zoneId = ZoneId]
                 ELSE [req EXCEPT !.pc = "return",
                                  !.reply = Fail(500, <<"Cloudflare API error">>)]
  /\ UNCHANGED <<db, runs, unin, oce, supa>>

\* The update of the row with the zone id found or created.
PersistZoneId ==
  /\ req.op \in {"provisionDns", "handleProvisionDns"} /\ req.pc = "persist"
  /\ IF req.op = "provisionDns"
       THEN /\ db' = [db EXCEPT !.emailDomain = WithZone(@, req.id, req.zoneId, TRUE)]
            /\ UNCHANGED supa
       ELSE /\ supa' = [supa EXCEPT !.email_domains = WithZone(@, req.id, req.zoneId, FALSE)]
            /\ UNCHANGED db
  /\ req' = EnterProvision(req)
  /\ UNCHANGED <<runs, unin, oce, cf>>

NextEnsureZone ==
  \/ \E s \in Tenants, domainId \in DomainIds, providerConfig \in Providers \cup {NoRow} :
       ProvisionDnsStart(s, domainId, providerConfig)
  \/ \E orgId \in Tenants, domain_id \in DomainIds \cup {""},
        providerConfig \in Providers \cup {NoRow} :
       HandleProvisionDnsStart(orgId, domain_id, providerConfig)
  \/ ProvisionClient
  \/ ZoneKnown
  \/ LookupZoneId
  \/ CreateZone
  \/ PersistZoneId
  \/ CreateMx
  \/ CreateSpf
  \/ CreateDkim
  \/ CreateDmarc
  \/ ProvisionPersist

SpecEnsureZone == InitProvisionDns /\ [][NextEnsureZone]_vars

\* The zone id on the one Domain row of the deployment the request runs in.
RowZoneId(web) ==
  IF web THEN (CHOOSE r \in db.emailDomain : r.id = "d1").cloudflareZoneId
  ELSE (CHOOSE r \in supa.email_domains : r.id = "d1").cloudflare_zone_id

ProvisionOnWeb ==
  \/ req.op = "provisionDns"
  \/ req.op = "provisionColdEmailDns" /\ req.caller = "provisionDns"

ZoneCallsMade == { k \in DOMAIN cf.calls : cf.calls[k].kind \in ZoneCalls }
RecordCallsMade == { k \in DOMAIN cf.calls : cf.calls[k].kind \notin ZoneCalls }

\* The lookup is the first call, a creation of the zone is the second and
\* follows a lookup that returned none, and records are created only once
\* the row holds a zone id.
ZoneBeforeRecords ==
  /\ \A k \in ZoneCallsMade :
       IF cf.calls[k].kind = "getZoneId" THEN k = 1
       ELSE k = 2 /\ cf.calls[1].kind = "getZoneId" /\ ~cf.calls[1].ok
  /\ RecordCallsMade # {} => RowZoneId(ProvisionOnWeb) # Null
  /\ ProvisionReturned => RowZoneId(ProvisionOnWeb) # Null

\* A step that calls getZoneId or createZone.
CallsZone ==
  /\ Len(cf.calls') = Len(cf.calls) + 1
  /\ cf.calls'[Len(cf.calls')].kind \in ZoneCalls

\* C21: Provision DNS on a row whose zone id is null looks the zone up first,
\* creates a zone only when the lookup returned none, and stores the zone id
\* found or created on the row before the first record creation; a row that
\* has a zone id causes no lookup and no creation; after a completed
\* Provision DNS the row's zone id is not null.
C21LazyZoneId ==
  /\ []ZoneBeforeRecords
  /\ [][CallsZone => RowZoneId(ProvisionOnWeb) = Null]_vars

\* A provision that found no zone, created one and went on to the records.
C21Witness ==
  /\ ProvisionReturned
  /\ Len(cf.calls) > 2
  /\ cf.calls[1].kind = "getZoneId" /\ ~cf.calls[1].ok
  /\ cf.calls[2].kind = "createZone" /\ cf.calls[2].ok
  /\ RowZoneId(req.op = "provisionDns") = ZoneId

----------------------------------------------------------------------------
(* POST /webhooks/smartlead/reply, web/server.js, one step per await: the
   body parsers, the account and campaign lookups, the Conversation row, the
   reply counter and the forward to Gmail *)

JsonType == "application/json"
FormType == "application/x-www-form-urlencoded"
ContentTypes == {JsonType, FormType}

\* The fields of the vendor's payload the handler reads.
ReplyPayloads ==
  [ to_email : ToEmails, campaign_id : {Null, "sl-c1", "sl-c9", "sl-zz"} ]

\* A body without the fields: what destructuring a Buffer gives.
NoFields == [to_email |-> Null, campaign_id |-> Null]

\* req.body as the handler sees it.  express.raw({ type: "application/json" })
\* is mounted on /webhooks/* ahead of every other parser: it reads a JSON body
\* into a Buffer, and the express.json() of the route skips a body already
\* read.  A form-encoded body is parsed into its fields by express.urlencoded.
ParsedBody(contentType, payload) ==
  IF contentType = JsonType THEN NoFields ELSE payload

\* The rows the handler reads and writes.
ReplyCampaignRow(id) ==
  [id |-> id, shop |-> OwnerOf(id), smartleadCampaignId |-> "sl-" \o id, totalReplies |-> 0]

GmailSettingsRow(s, refreshToken, gmailEmail) ==
  [shop |-> s, gmailAccessToken |-> "at0", gmailRefreshToken |-> refreshToken,
   gmailEmail |-> gmailEmail]

\* The secret check, the answer, and the handler up to its first await.
ReplyStart(secret, given, contentType, payload) ==
  /\ req.pc = "idle"
  /\ LET body == ParsedBody(contentType, payload)
         begin == [op |-> "reply", pc |-> "return", response |-> 401,
                   contentType |-> contentType, payload |-> payload, body |-> body,
                   shop |-> Null, localCampaignId |-> Null, conversation |-> Null,
                   loaded |-> "", accessToken |-> "", refreshToken |-> "",
                   retried |-> FALSE, forward |-> "none"]
     IN req' = IF ~SecretPasses(secret, given) THEN begin
               ELSE IF body.to_email = Null THEN [begin EXCEPT !.response = 200]
               ELSE [begin EXCEPT !.response = 200, !.pc = "account"]
  /\ UNCHANGED <<db, runs, unin, oce, cf, supa>>

\* prisma.emailAccount.findUnique({ where: { emailAddress: to_email } })
ReplyAccount ==
  /\ req.op = "reply" /\ req.pc = "account"
  /\ LET found == { r \in db.emailAccount : r.emailAddress = req.body.to_email } IN
     req' = IF found = {} THEN [req EXCEPT !.pc = "return"]
            ELSE [req EXCEPT !.shop = (CHOOSE r \in found : TRUE).shop,
                             !.pc = IF req.body.campaign_id # Null THEN "campaign" ELSE "store"]
  /\ UNCHANGED <<db, runs, unin, oce, cf, supa>>

\* prisma.outreachCampaign.findFirst({ where: { shop, smartleadCampaignId } })
ReplyCampaign ==
  /\ req.op = "reply" /\ req.pc = "campaign"
  /\ LET found == { r \in db.outreachCampaign :
                      r.shop = req.shop /\ r.smartleadCampaignId = req.body.campaign_id } IN
     req' = [req EXCEPT !.pc = "store",
                        !.localCampaignId = IF found = {} THEN Null
                                            ELSE (CHOOSE r \in found : TRUE).id]
  /\ UNCHANGED <<db, runs, unin, oce, cf, supa>>

\* prisma.emailConversation.create
ReplyStore ==
  /\ req.op = "reply" /\ req.pc = "store"
  /\ db' = [db EXCEPT !.emailConversation =
              @ \cup {[id |-> "v1", shop |-> req.shop, campaignId |-> req.localCampaignId,
                       toEmail |-> req.body.to_email, direction |-> "inbound",
                       gmailMessageId |-> Null]}]
  /\ req' = [req EXCEPT !.conversation = "v1",
                        !.pc = IF req.localCampaignId # Null THEN "count" ELSE "settings"]
  /\ UNCHANGED <<runs, unin, oce, cf, supa>>

\* prisma.outreachCampaign.update({ data: { totalReplies: { increment: 1 } } })
ReplyCount ==
  /\ req.op = "reply" /\ req.pc = "count"
  /\ db' = [db EXCEPT !.outreachCampaign =
              { IF r.id = req.localCampaignId THEN [r EXCEPT !.totalReplies = @ + 1] ELSE r :
                  r \in @ }]
  /\ req' = [req EXCEPT !.pc = "settings"]
  /\ UNCHANGED <<runs, unin, oce, cf, supa>>

\* prisma.emailSettings.findUnique and `new GmailService(...)` when the row
\* has a refresh token and a Gmail address.
ReplySettings ==
  /\ req.op = "reply" /\ req.pc = "settings"
  /\ LET emailSettings == db.emailSettings[req.shop] IN
     req' = IF emailSettings # NoRow /\ emailSettings.gmailRefreshToken # ""
                /\ emailSettings.gmailEmail # ""
              THEN [req EXCEPT !.pc = "insert", !.loaded = emailSettings.gmailAccessToken,
                               !.accessToken = emailSettings.gmailAccessToken,
                               !.refreshToken = emailSettings.gmailRefreshToken]
              ELSE [req EXCEPT !.pc = "return"]
  /\ UNCHANGED <<db, runs, unin, oce, cf, supa>>

\* One fetch of gmail.insertMessage: the refresh branch, the inserted
\* message, or a raise that the inner catch logs.
ReplyInsert(status) ==
  /\ req.op = "reply" /\ req.pc = "insert"
  /\ cf' = [cf EXCEPT !.calls = Append(@, [kind |-> "gmail", status |-> status,
                                           token |-> req.accessToken])]
  /\ req' = IF ShouldRefresh(status, req.retried, req.refreshToken)
              THEN [req EXCEPT !.pc = "refresh"]
            ELSE IF status = 200 THEN [req EXCEPT !.pc = "message"]
            ELSE [req EXCEPT !.pc = "return", !.forward = "failed"]
  /\ UNCHANGED <<db, runs, unin, oce, supa>>

\* refreshAccessToken, then the retry; a refused refresh raises.
ReplyRefresh ==
  /\ req.op = "reply" /\ req.pc = "refresh"
  /\ \/ \E token \in FreshTokens :
          req' = [req EXCEPT !.pc = "insert", !.retried = TRUE, !.accessToken = token]
     \/ req' = [req EXCEPT !.pc = "return", !.forward = "failed"]
  /\ UNCHANGED <<db, runs, unin, oce, cf, supa>>

\* prisma.emailConversation.update({ data: { gmailMessageId: result.id } })
ReplyMessageId ==
  /\ req.op = "reply" /\ req.pc = "message"
  /\ db' = [db EXCEPT !.emailConversation =
              UpdateById(@, req.conversation, "gmailMessageId", "m1")]
  /\ req' = IF req.accessToken # req.loaded THEN [req EXCEPT !.pc = "token"]
            ELSE [req EXCEPT !.pc = "return", !.forward = "done"]
  /\ UNCHANGED <<runs, unin, oce, cf, supa>>

\* "If token was refreshed, persist it"
ReplyToken ==
  /\ req.op = "reply" /\ req.pc = "token"
  /\ db' = [db EXCEPT !.emailSettings[req.shop].gmailAccessToken = req.accessToken]
  /\ req' = [req EXCEPT !.pc = "return", !.forward = "done"]
  /\ UNCHANGED <<runs, unin, oce, cf, supa>>

\* Two tenants with a mailbox and a campaign each, no conversation yet; the
\* tenant has connected Gmail or not.
InitReply ==
  /\ \E refreshToken \in {"", "rt"}, gmailEmail \in {"", "me@gmail.com"} :
       db = [InitDb EXCEPT
               !.emailAccount = { AccountRow(id) : id \in AccountIds },
               !.outreachCampaign = { ReplyCampaignRow(id) : id \in CampaignIds },
               !.emailConversation = {},
               !.emailSettings = [s \in Shops |-> GmailSettingsRow(s, refreshToken, gmailEmail)]]
  /\ runs = [p \in Procs |-> IdleRun]
  /\ unin = IdleUninstall
  /\ oce = [attempts |-> [k \in OrderKeys |-> 0], received |-> [k \in OrderKeys |-> 0]]
  /\ req = IdleReq
  /\ cf = IdleCf
  /\ supa = IdleSupa

NextReply ==
  \/ \E secret \in {Null, WebhookSecret}, given \in GivenSecrets,
        contentType \in ContentTypes, payload \in ReplyPayloads :
       ReplyStart(secret, given, contentType, payload)
  \/ ReplyAccount
  \/ ReplyCampaign
  \/ ReplyStore
  \/ ReplyCount
  \/ ReplySettings
  \/ \E status \in GmailStatuses : ReplyInsert(status)
  \/ ReplyRefresh
  \/ ReplyMessageId
  \/ ReplyToken

SpecReply == InitReply /\ [][NextReply]_vars

ReplyEnded == req.op = "reply" /\ req.pc = "return"

\* The Gmail client of the handler holds another access token than the one
\* the handler loaded.
Rotated == req.op = "reply" /\ req.loaded # "" /\ req.accessToken # req.loaded

\* C22: after a forwarding step during which the Gmail client rotated its
\* access token, the tenant's EmailSettings row holds the new token, whether
\* or not the insertion that followed the refresh succeeded.
C22RotatedTokenStored ==
  ReplyEnded /\ Rotated => db.emailSettings[req.shop].gmailAccessToken = req.accessToken

\* The account the payload's to_email names and, for that account's shop, the
\* campaigns with the payload's vendor campaign id.
MatchedAccounts == { r \in db.emailAccount : r.emailAddress = req.payload.to_email }

MatchedCampaigns ==
  { c \in db.outreachCampaign :
      /\ c.smartleadCampaignId = req.payload.campaign_id
      /\ \E r \in MatchedAccounts : c.shop = r.shop }

RepliesCounted(expected) ==
  \A c \in db.outreachCampaign :
    c.totalReplies = IF c.id \in expected THEN 1 ELSE 0

ReplyStored ==
  /\ Cardinality(db.emailConversation) = 1
  /\ \A v \in db.emailConversation :
       /\ v.direction = "inbound"
       /\ \E r \in MatchedAccounts : v.shop = r.shop
  /\ RepliesCounted({ c.id : c \in MatchedCampaigns })

\* C24: a reply webhook whose to_email matches an EmailAccount creates exactly
\* one Conversation row with the account's shop and direction 'inbound' and
\* adds one to totalReplies of the campaign matching the vendor campaign id,
\* and a failed forward to Gmail leaves both in place; a webhook whose
\* to_email is missing or matches no account creates and changes no row.
C24OneConversationPerReply ==
  /\ [](ReplyEnded /\ req.response = 200 /\ MatchedAccounts # {} => ReplyStored)
  /\ [][req.op = "reply" /\ MatchedAccounts = {} => db' = db]_vars

----------------------------------------------------------------------------
(* createEmailAccount, web/backend/routes/email-accounts.js: concurrent calls,
   one step per await *)

LocalParts == {"ann", "bob"}

\* `${localPart}@${domain.domain}`
EmailAddress(localPart, domain) == <<localPart, "@">> \o domain

\* An EmailAccount row; emailAddress is @unique in the schema.
NewAccountRow(s, domainId, emailAddress, smartleadAccountId) ==
  [ shop |-> s, domainId |-> domainId, emailAddress |-> emailAddress,
    smartleadAccountId |-> smartleadAccountId, warmupStatus |-> "active" ]

IdleCreate ==
  [ pc |-> "idle", shop |-> Null, domainId |-> Null, localPart |-> Null,
    emailAddress |-> <<>>, smartleadAccountId |-> Null, called |-> FALSE,
    error |-> Null ]

CreateThrows(r, message) == [r EXCEPT !.pc = "threw", !.error = message]

\* createEmailAccount up to the duplicate check: the Domain row of the tenant.
CreateAccountStart(p, s, domainId, localPart) ==
  /\ runs[p].pc = "idle"
  /\ LET found == { d \in db.emailDomain : d.id = domainId /\ d.shop = s }
         begin == [IdleCreate EXCEPT !.shop = s, !.domainId = domainId,
                                     !.localPart = localPart]
     IN runs' = [runs EXCEPT ![p] =
          IF found = {} THEN CreateThrows(begin, "Domain not found")
          ELSE [begin EXCEPT !.pc = "duplicate", !.emailAddress =
                  EmailAddress(localPart, (CHOOSE d \in found : TRUE).domain)]]
  /\ UNCHANGED <<db, unin, oce, req, cf, supa>>

\* "Check for duplicate": prisma.emailAccount.findUnique({ where: { emailAddress } })
CreateAccountDuplicate(p) ==
  /\ runs[p].pc = "duplicate"
  /\ runs' = [runs EXCEPT ![p] =
       IF \E r \in db.emailAccount : r.emailAddress = runs[p].emailAddress
         THEN CreateThrows(@, "already exists")
         ELSE [@ EXCEPT !.pc = "clients"]]
  /\ UNCHANGED <<db, unin, oce, req, cf, supa>>

\* getServiceClients and `if (!smartlead) throw`
CreateAccountClients(p) ==
  /\ runs[p].pc = "clients"
  /\ LET settings == db.emailSettings[runs[p].shop] IN
     runs' = [runs EXCEPT ![p] =
       IF settings = NoRow THEN CreateThrows(@, "Email settings not configured")
       ELSE IF settings.smartleadApiKey = "" THEN CreateThrows(@, "Smartlead API key not configured")
       ELSE [@ EXCEPT !.pc = "vendor"]]
  /\ UNCHANGED <<db, unin, oce, req, cf, supa>>

\* smartlead.addEmailAccount: the vendor registers the mailbox, or raises.
\* The call is logged with whether a row of the address was stored by then.
CreateAccountVendor(p) ==
  /\ runs[p].pc = "vendor"
  /\ cf' = [cf EXCEPT !.calls = Append(@,
              [ kind |-> "addEmailAccount", fromEmail |-> runs[p].emailAddress,
                stored |-> \E r \in db.emailAccount : r.emailAddress = runs[p].emailAddress ])]
  /\ \E ok \in BOOLEAN :
       runs' = [runs EXCEPT ![p] =
         IF ok THEN [@ EXCEPT !.pc = "create", !.called = TRUE,
                              !.smartleadAccountId = "sl-" \o ToString(Len(cf.calls) + 1)]
         ELSE [CreateThrows(@, "Smartlead API error") EXCEPT !.called = TRUE]]
  /\ UNCHANGED <<db, unin, oce, req, supa>>

\* prisma.emailAccount.create: the unique index on emailAddress refuses a
\* second row of the address.
CreateAccountStore(p) ==
  /\ runs[p].pc = "create"
  /\ IF \E r \in db.emailAccount : r.emailAddress = runs[p].emailAddress
       THEN /\ runs' = [runs EXCEPT ![p] = CreateThrows(@, "Unique constraint failed")]
            /\ UNCHANGED db
       ELSE /\ db' = [db EXCEPT !.emailAccount = @ \cup
                        {NewAccountRow(runs[p].shop, runs[p].domainId, runs[p].emailAddress,
                                       runs[p].smartleadAccountId)}]
            /\ runs' = [runs EXCEPT ![p].pc = "returned"]
  /\ UNCHANGED <<unin, oce, req, cf, supa>>

\* The tenant with its domain, with or without the vendor key and with or
\* without a mailbox ann@ already created; another tenant's domain.
InitCreateAccount ==
  /\ \E key \in {"", "slkey"}, have \in SUBSET {"ann"} :
       db = [InitDb EXCEPT
               !.emailDomain = { DomainRow(id) : id \in DomainIds },
               !.emailAccount = { NewAccountRow("s1", "d1", EmailAddress(l, DomainName), "sl-0") :
                                    l \in have },
               !.emailSettings = [s \in Shops |-> [shop |-> s, smartleadApiKey |-> key]]]
  /\ runs = [p \in Procs |-> IdleCreate]
  /\ unin = IdleUninstall
  /\ oce = [attempts |-> [k \in OrderKeys |-> 0], received |-> [k \in OrderKeys |-> 0]]
  /\ req = IdleReq
  /\ cf = IdleCf
  /\ supa = IdleSupa

NextCreateAccount ==
  \/ \E p \in Procs, s \in Tenants, domainId \in DomainIds, localPart \in LocalParts :
       CreateAccountStart(p, s, domainId, localPart)
  \/ \E p \in Procs : CreateAccountDuplicate(p)
  \/ \E p \in Procs : CreateAccountClients(p)
  \/ \E p \in Procs : CreateAccountVendor(p)
  \/ \E p \in Procs : CreateAccountStore(p)

SpecCreateAccount == InitCreateAccount /\ [][NextCreateAccount]_vars

ValidationErrors ==
  {"Domain not found", "already exists", "Email settings not configured",
   "Smartlead API key not configured"}

\* C23: createEmailAccount raises its validation and configuration errors
\* before any call to the vendor, addEmailAccount is never called for an
\* address that already has an EmailAccount row, also when two creations of
\* the same address run concurrently, and at most one row exists per address.
C23NoVendorCallForDuplicate ==
  /\ \A p \in Procs : runs[p].error \in ValidationErrors => ~runs[p].called
  /\ \A k \in DOMAIN cf.calls : ~cf.calls[k].stored
  /\ \A r1, r2 \in db.emailAccount : r1.emailAddress = r2.emailAddress => r1 = r2

----------------------------------------------------------------------------
(* Simultaneous Verify DNS calls for one domain: verifyDns, respectively
   handleVerifyDns, per call, one step per await, against a zone that does
   not change *)

\* The records of the zone: none, the four of a verified domain, those a
\* provision with the default profile leaves (no DKIM), and DKIM alone.
FullZone ==
  << Record("MX", DomainName, MxHost), Record("TXT", DomainName, SpfContent),
     Record("CNAME", DkimName, MxHost), Record("TXT", DmarcName(DomainName), DmarcContent) >>

VerifyZones ==
  { <<>>, FullZone, <<FullZone[1], FullZone[2], FullZone[4]>>, <<FullZone[3]>> }

IdleVerify ==
  [ pc |-> "idle", web |-> FALSE, id |-> Null, domain |-> <<>>, status |-> NoFlags,
    error |-> Null, wrote |-> FALSE ]

VerifyThrows(r, message) == [r EXCEPT !.pc = "return", !.error = message]

\* The Domain row of the tenant and its zone, in the deployment called.
VerifyCallStart(p, s, domainId) ==
  /\ runs[p].pc = "idle"
  /\ LET web == cf.web
         found == IF web THEN { r \in db.emailDomain : r.id = domainId /\ r.shop = s }
                  ELSE { r \in supa.email_domains : r.id = domainId /\ r.org_id = s }
         begin == [IdleVerify EXCEPT !.web = web, !.id = domainId]
     IN runs' = [runs EXCEPT ![p] =
          IF found = {} THEN VerifyThrows(begin, "Domain not found")
          ELSE LET domain == CHOOSE r \in found : TRUE
                   zoneId == IF web THEN domain.cloudflareZoneId ELSE domain.cloudflare_zone_id
               IN IF zoneId = Null THEN VerifyThrows(begin, "Domain has no Cloudflare zone")
                  ELSE [begin EXCEPT !.pc = "client", !.domain = domain.domain]]
  /\ UNCHANGED <<db, unin, oce, req, cf, supa>>

\* getServiceClients, respectively getCloudflareClient.
VerifyCallClient(p) ==
  /\ runs[p].pc = "client"
  /\ LET configured ==
           IF runs[p].web
             THEN HasCloudflare(db.emailSettings["s1"].cloudflareApiToken,
                                db.emailSettings["s1"].cloudflareAccountId)
             ELSE HasCloudflare(supa.email_settings.cloudflare_api_token,
                                supa.email_settings.cloudflare_account_id)
     IN runs' = [runs EXCEPT ![p] =
          IF configured THEN [@ EXCEPT !.pc = "list"]
          ELSE VerifyThrows(@, "Cloudflare credentials not configured")]
  /\ UNCHANGED <<db, unin, oce, req, cf, supa>>

\* verifyDnsRecords: the listing of the zone scanned, or the listing raises.
VerifyCallRecords(p) ==
  /\ runs[p].pc = "list"
  /\ cf' = [cf EXCEPT !.calls = Append(@, "GET dns_records")]
  /\ \/ runs' = [runs EXCEPT ![p] = VerifyThrows(@, "Cloudflare API error")]
     \/ runs' = [runs EXCEPT ![p].pc = "persist",
                             ![p].status = verifyDnsRecords(cf.zone, runs[p].domain, runs[p].web)]
  /\ UNCHANGED <<db, unin, oce, req, supa>>

\* The one update of the row: the four flags and, in the function, the status.
VerifyCallPersist(p) ==
  /\ runs[p].pc = "persist"
  /\ LET status == runs[p].status IN
     IF runs[p].web
       THEN /\ db' = [db EXCEPT !.emailDomain =
                       { IF r.id = runs[p].id
                           THEN [r EXCEPT !.mxVerified = status.mx, !.spfVerified = status.spf,
                                          !.dkimVerified = status.dkim,
                                          !.dmarcVerified = status.dmarc]
                           ELSE r : r \in @ }]
            /\ UNCHANGED supa
       ELSE /\ supa' = [supa EXCEPT !.email_domains =
                         { IF r.id = runs[p].id
                             THEN [r EXCEPT !.mx_verified = status.mx, !.spf_verified = status.spf,
                                            !.dkim_verified = status.dkim,
                                            !.dmarc_verified = status.dmarc,
                                            !.status = NewStatus(status)]
                             ELSE r : r \in @ }]
            /\ UNCHANGED db
  /\ runs' = [runs EXCEPT ![p].pc = "return", ![p].wrote = TRUE]
  /\ UNCHANGED <<unin, oce, req, cf>>

\* The domain of the tenant with its zone, verified before or not, in one of
\* the two deployments; the zone's records are fixed.
InitVerifyTwice ==
  /\ runs = [p \in Procs |-> IdleVerify]
  /\ unin = IdleUninstall
  /\ oce = [attempts |-> [k \in OrderKeys |-> 0], received |-> [k \in OrderKeys |-> 0]]
  /\ req = IdleReq
  /\ \E web \in BOOLEAN, zone \in VerifyZones :
       cf = [calls |-> <<>>, web |-> web, zone |-> zone]
  /\ \E verified \in BOOLEAN :
       /\ db = [InitDb EXCEPT
                  !.emailSettings["s1"] =
                     WebSettings("s1", RawLong, AccountId, [f \in Range(required) |-> Filled]),
                  !.emailDomain = {WebDomain(ZoneId, verified)}]
       /\ supa = [email_settings |->
                    FunctionSettings("s1", RawLong, AccountId,
                                     [whois |-> [f \in Range(required) |-> Filled]]),
                  email_domains |-> {FunctionDomain(ZoneId, verified)}]

NextVerifyTwice ==
  \/ \E p \in Procs, s \in Tenants, domainId \in DomainIds : VerifyCallStart(p, s, domainId)
  \/ \E p \in Procs : VerifyCallClient(p)
  \/ \E p \in Procs : VerifyCallRecords(p)
  \/ \E p \in Procs : VerifyCallPersist(p)

SpecVerifyTwice == InitVerifyTwice /\ [][NextVerifyTwice]_vars

\* The flags and the status of the row as a reader of the deployment sees them.
StoredVerification ==
  IF cf.web
    THEN LET r == CHOOSE r \in db.emailDomain : r.id = "d1" IN
         [ flags |-> [mx |-> r.mxVerified, spf |-> r.spfVerified,
                      dkim |-> r.dkimVerified, dmarc |-> r.dmarcVerified],
           status |-> Null ]
    ELSE LET r == CHOOSE r \in supa.email_domains : r.id = "d1" IN
         [ flags |-> [mx |-> r.mx_verified, spf |-> r.spf_verified,
                      dkim |-> r.dkim_verified, dmarc |-> r.dmarc_verified],
           status |-> r.status ]

\* What one call alone persists for the zone.
SingleCall ==
  LET flags == verifyDnsRecords(cf.zone, DomainName, cf.web) IN
  [ flags |-> flags,
    status |-> IF cf.web THEN Null
               ELSE IF AllFour(flags) THEN "active" ELSE "dns_pending" ]

\* C25: simultaneous Verify DNS calls for one domain against an unchanged
\* zone leave, under every interleaving, the flags and the status a single
\* call leaves, and no reader sees the status 'active' beside a false flag.
C25VerifyIdempotent ==
  /\ (\E p \in Procs : runs[p].wrote) => StoredVerification = SingleCall
  /\ StoredVerification.status = "active" => AllFour(StoredVerification.flags)

\* Both calls of the function wrote, for a zone that lacks DKIM only.
C25Witness ==
  /\ \A p \in Procs : runs[p].wrote
  /\ ~cf.web /\ Len(cf.zone) = 3
  /\ StoredVerification.status = "dns_pending"
  /\ StoredVerification.flags.mx /\ ~StoredVerification.flags.dkim

----------------------------------------------------------------------------
(* getSettings and getEmailSettings under concurrent first reads: findUnique
   and create are two awaits *)

SettingsTables == {"oceSettings", "emailSettings"}

IdleRead == [pc |-> "idle", table |-> Null, shop |-> Null, settings |-> NoRow, error |-> Null]

\* The row `create` inserts for the table.
CreatedDefaults(table, s) ==
  IF table = "oceSettings" THEN DefaultOceSettings ELSE DefaultEmailSettings(s)

StoredSettings(d, table, s) ==
  IF table = "oceSettings" THEN d.oceSettings[s] ELSE d.emailSettings[s]

\* `let settings = await prisma.<table>.findUnique({ where: { shop } })`, of
\* a first or a later read of the caller.
SettingsFindUnique(p, table, s) ==
  /\ runs[p].pc \in {"idle", "returned", "threw"}
  /\ LET settings == StoredSettings(db, table, s) IN
     runs' = [runs EXCEPT ![p] =
       [IdleRead EXCEPT !.table = table, !.shop = s, !.settings = settings,
                        !.pc = IF settings = NoRow THEN "create" ELSE "returned"]]
  /\ UNCHANGED <<db, unin, oce, req, cf, supa>>

\* `settings = await prisma.<table>.create({ data: { shop, ... } })`: shop is
\* unique, so the insert raises when a row of the shop is stored by now.
SettingsCreate(p) ==
  /\ runs[p].pc = "create"
  /\ LET table == runs[p].table
         s == runs[p].shop
         taken == StoredSettings(db, table, s) # NoRow
     IN /\ cf' = [cf EXCEPT !.calls = Append(@, [kind |-> "create", table |-> table,
                                                 shop |-> s, ok |-> ~taken])]
        /\ IF taken
             THEN /\ runs' = [runs EXCEPT ![p].pc = "threw",
                                          ![p].error = "Unique constraint failed"]
                  /\ UNCHANGED db
             ELSE /\ db' = IF table = "oceSettings"
                             THEN [db EXCEPT !.oceSettings[s] = CreatedDefaults(table, s)]
                             ELSE [db EXCEPT !.emailSettings[s] = CreatedDefaults(table, s)]
                  /\ runs' = [runs EXCEPT ![p].pc = "returned",
                                          ![p].settings = CreatedDefaults(table, s)]
  /\ UNCHANGED <<unin, oce, req, supa>>

\* The tenant with or without each of its two settings rows.
InitFirstRead ==
  /\ \E haveOce, haveEmail \in BOOLEAN :
       db = [InitDb EXCEPT
               !.oceSettings["s1"] = IF haveOce THEN DefaultOceSettings ELSE NoRow,
               !.emailSettings = [s \in Shops |->
                  IF s = "s1" /\ ~haveEmail THEN NoRow ELSE DefaultEmailSettings(s)]]
  /\ runs = [p \in Procs |-> IdleRead]
  /\ unin = IdleUninstall
  /\ oce = [attempts |-> [k \in OrderKeys |-> 0], received |-> [k \in OrderKeys |-> 0]]
  /\ req = IdleReq
  /\ cf = IdleCf
  /\ supa = IdleSupa

NextFirstRead ==
  \/ \E p \in Procs, table \in SettingsTables, s \in Tenants : SettingsFindUnique(p, table, s)
  \/ \E p \in Procs : SettingsCreate(p)

SpecFirstRead == InitFirstRead /\ [][NextFirstRead]_vars

RowsCreated(table, s) ==
  Cardinality({ k \in DOMAIN cf.calls :
                  cf.calls[k].table = table /\ cf.calls[k].shop = s /\ cf.calls[k].ok })

\* C26: the first read of a tenant's settings creates the row with the
\* defaults, every read returns successfully, and at most one Settings row
\* and one EmailSettings row exist per tenant, also when two first reads of
\* the same tenant run concurrently.
C26FirstReadCreatesOnce ==
  /\ \A p \in Procs :
       /\ runs[p].pc # "threw"
       /\ runs[p].pc = "returned" =>
            /\ runs[p].settings # NoRow
            /\ StoredSettings(db, runs[p].table, runs[p].shop) # NoRow
  /\ \A table \in SettingsTables, s \in Tenants : RowsCreated(table, s) <= 1

----------------------------------------------------------------------------
(* The OrderSync row once it is 'sent' *)

\* C27: once the OrderSync row of a (shop, order id) has status 'sent', no
\* later or concurrently running handleOrderCreated for that order sets its
\* status back to 'pending' or to 'failed', and its oceOrderId and commission
\* do not change again.
C27SentIsFinal ==
  [][\A k \in OrderKeys :
       (/\ db.orderSync[k] # NoRow /\ db.orderSync[k].status = "sent"
        /\ db'.orderSync[k] # NoRow)
       => /\ db'.orderSync[k].status = "sent"
          /\ db'.orderSync[k].oceOrderId = db.orderSync[k].oceOrderId
          /\ db'.orderSync[k].commission = db.orderSync[k].commission]_vars

----------------------------------------------------------------------------
(* Provision, then verify: verifyDnsRecords on a zone that lists the records
   provisionColdEmailDns created *)

\* DKIM entries a caller may put in the profile: a selector under
\* ._domainkey. with no type, as a CNAME and with another type, and a name
\* that lacks the label.
RoundTripDkim ==
  { [name |-> DkimName, content |-> <<"k">>, type |-> Null],
    [name |-> DkimName, content |-> <<"k">>, type |-> "CNAME"],
    [name |-> DkimName, content |-> <<"k">>, type |-> "A"],
    [name |-> NearDkimName, content |-> <<"k">>, type |-> Null] }

RoundTripProviders ==
  { [mxRecords |-> MxRecords(n), spfInclude |-> spf, dkimRecords |-> dkim] :
      n \in 0..MaxMx, spf \in {<<>>, <<"z">>},
      dkim \in UNION { [1..m -> RoundTripDkim] : m \in 0..MaxDkim } }

\* The records the zone lists after the call: those that were created.
CreatedRecords(results) ==
  results.mx \o (IF results.spf = NoRow THEN <<>> ELSE <<results.spf>>)
    \o results.dkim \o (IF results.dmarc = NoRow THEN <<>> ELSE <<results.dmarc>>)

\* Verify DNS after the provision has returned: listDnsRecords and the scan,
\* by CloudflareService or by CloudflareClient, and the status the function
\* would store.
ListAndVerify(service) ==
  /\ req.op = "provisionColdEmailDns" /\ req.pc = "return"
  /\ LET records == CreatedRecords(req.results)
         status == verifyDnsRecords(records, req.domain, service)
     IN req' = [ op |-> "verifyDnsRecords", pc |-> "return", service |-> service,
                 provider |-> req.provider, errors |-> req.results.errors,
                 records |-> records, status |-> status, newStatus |-> NewStatus(status) ]
  /\ UNCHANGED <<db, runs, unin, oce, cf, supa>>

NextRoundTrip ==
  \/ \E provider \in RoundTripProviders \cup {DefaultProvider} : ProvisionStart(provider)
  \/ CreateMx
  \/ CreateSpf
  \/ CreateDkim
  \/ CreateDmarc
  \/ \E service \in BOOLEAN : ListAndVerify(service)

SpecRoundTrip == InitProvision /\ [][NextRoundTrip]_vars

\* The name holds the label ._domainkey. at some position.
HasDomainKeyLabel(name) ==
  \E i \in 1..Len(name) :
    /\ i + Len(DomainKey) - 1 <= Len(name)
    /\ \A k \in 1..Len(DomainKey) : name[i + k - 1] = DomainKey[k]

AllCreated == req.op = "verifyDnsRecords" /\ req.errors = <<>>

\* C28: when every creation of provisionColdEmailDns succeeded and the zone
\* lists the records created, verifyDnsRecords gives mx for a profile with an
\* MX entry, spf for one with an SPF include, dmarc always, and dkim only if
\* a DKIM entry's name contains ._domainkey.; so a domain provisioned with
\* the default profile is not made 'active' by the Verify DNS that follows.
C28ProvisionVerifyRoundTrip ==
  AllCreated =>
    /\ Len(req.provider.mxRecords) > 0 => req.status.mx
    /\ req.provider.spfInclude # <<>> => req.status.spf
    /\ req.status.dmarc
    /\ req.status.dkim =>
         \E i \in DOMAIN req.provider.dkimRecords :
           HasDomainKeyLabel(req.provider.dkimRecords[i].name)
    /\ req.provider = DefaultProvider =>
         /\ ~req.status.dkim
         /\ req.newStatus = "dns_pending"

\* The default profile went through: everything but DKIM is verified.
C28Witness ==
  /\ AllCreated /\ req.provider = DefaultProvider
  /\ Len(req.records) = 5
  /\ req.status = [mx |-> TRUE, spf |-> TRUE, dkim |-> FALSE, dmarc |-> TRUE]

----------------------------------------------------------------------------
(* assignToCampaign under concurrent calls, one step per await *)

\* Two mailboxes and one campaign of the tenant.
AssignAccounts == {"a1", "a2"}

AssignAccountRow(id) ==
  [id |-> id, shop |-> "s1", emailAddress |-> Mailbox(id), smartleadAccountId |-> "sl-" \o id]

AssignCampaignRow(emailAccountIds) ==
  [id |-> "c1", shop |-> "s1", name |-> "spring", smartleadCampaignId |-> "sl-c1",
   emailAccountIds |-> emailAccountIds]

IdleAssign ==
  [ pc |-> "idle", shop |-> Null, accountId |-> Null, campaignId |-> Null,
    account |-> NoRow, campaign |-> NoRow, error |-> Null ]

AssignThrows(r, message) == [r EXCEPT !.pc = "threw", !.error = message]

\* prisma.emailAccount.findFirst({ where: { id: accountId, shop } })
AssignCallStart(p, s, accountId, campaignId) ==
  /\ runs[p].pc = "idle"
  /\ LET found == Owned(db.emailAccount, accountId, s)
         begin == [IdleAssign EXCEPT !.shop = s, !.accountId = accountId,
                                     !.campaignId = campaignId]
     IN runs' = [runs EXCEPT ![p] =
          IF found = {} THEN AssignThrows(begin, "Email account not found")
          ELSE [begin EXCEPT !.pc = "campaign", !.account = CHOOSE r \in found : TRUE]]
  /\ UNCHANGED <<db, unin, oce, req, cf, supa>>

\* prisma.outreachCampaign.findFirst({ where: { id: campaignId, shop } }): the
\* row, emailAccountIds included, as it is now.
AssignCallCampaign(p) ==
  /\ runs[p].pc = "campaign"
  /\ LET found == Owned(db.outreachCampaign, runs[p].campaignId, runs[p].shop) IN
     runs' = [runs EXCEPT ![p] =
       IF found = {} THEN AssignThrows(@, "Campaign not found")
       ELSE [@ EXCEPT !.pc = "client", !.campaign = CHOOSE r \in found : TRUE]]
  /\ UNCHANGED <<db, unin, oce, req, cf, supa>>

\* getServiceClients(shop)
AssignCallClient(p) ==
  /\ runs[p].pc = "client"
  /\ LET settings == db.emailSettings[runs[p].shop] IN
     runs' = [runs EXCEPT ![p] =
       IF settings = NoRow THEN AssignThrows(@, "Email settings not configured")
       ELSE IF settings.smartleadApiKey = "" THEN AssignThrows(@, "Smartlead API key not configured")
       ELSE [@ EXCEPT !.pc = "add"]]
  /\ UNCHANGED <<db, unin, oce, req, cf, supa>>

\* smartlead.addEmailsToCampaign, which may raise.
AssignCallAdd(p) ==
  /\ runs[p].pc = "add"
  /\ \/ /\ cf' = [cf EXCEPT !.calls = Append(@, [kind |-> "addEmailsToCampaign",
                                                 account |-> runs[p].account.smartleadAccountId])]
        /\ runs' = [runs EXCEPT ![p].pc = "update"]
     \/ /\ runs' = [runs EXCEPT ![p] = AssignThrows(@, "Smartlead API error")]
        /\ UNCHANGED cf
  /\ UNCHANGED <<db, unin, oce, req, supa>>

\* `if (!existingIds.includes(accountId)) { existingIds.push(accountId);
\* update }` on the ids read with the campaign, and the answer.
AssignCallUpdate(p) ==
  /\ runs[p].pc = "update"
  /\ LET existingIds == runs[p].campaign.emailAccountIds IN
     db' = IF runs[p].accountId \in Range(existingIds) THEN db
           ELSE [db EXCEPT !.outreachCampaign =
                   UpdateById(@, runs[p].campaignId, "emailAccountIds",
                              Append(existingIds, runs[p].accountId))]
  /\ runs' = [runs EXCEPT ![p].pc = "returned"]
  /\ UNCHANGED <<unin, oce, req, cf, supa>>

\* The campaign with no mailbox or with a1 assigned; the vendor key set or not.
InitAssign ==
  /\ \E key \in {"", "slkey"}, emailAccountIds \in {<<>>, <<"a1">>} :
       db = [InitDb EXCEPT
               !.emailAccount = { AssignAccountRow(id) : id \in AssignAccounts },
               !.outreachCampaign = {AssignCampaignRow(emailAccountIds)},
               !.emailSettings = [s \in Shops |-> [shop |-> s, smartleadApiKey |-> key]]]
  /\ runs = [p \in Procs |-> IdleAssign]
  /\ unin = IdleUninstall
  /\ oce = [attempts |-> [k \in OrderKeys |-> 0], received |-> [k \in OrderKeys |-> 0]]
  /\ req = IdleReq
  /\ cf = IdleCf
  /\ supa = IdleSupa

NextAssign ==
  \/ \E p \in Procs, s \in Tenants, accountId \in AssignAccounts \cup {"a9"},
        campaignId \in CampaignIds :
       AssignCallStart(p, s, accountId, campaignId)
  \/ \E p \in Procs : AssignCallCampaign(p)
  \/ \E p \in Procs : AssignCallClient(p)
  \/ \E p \in Procs : AssignCallAdd(p)
  \/ \E p \in Procs : AssignCallUpdate(p)

SpecAssign == InitAssign /\ [][NextAssign]_vars

AssignedIds == (CHOOSE c \in db.outreachCampaign : c.id = "c1").emailAccountIds

\* C29: after assignToCampaign has completed successfully the campaign's
\* emailAccountIds contain the account id, and no id is listed twice, after
\* any sequence of assignments, concurrent ones of different accounts to the
\* same campaign included: no assignment is lost.
C29NoAssignmentLost ==
  /\ \A p \in Procs : runs[p].pc = "returned" => runs[p].accountId \in Range(AssignedIds)
  /\ \A i, j \in DOMAIN AssignedIds : AssignedIds[i] = AssignedIds[j] => i = j

----------------------------------------------------------------------------
(* The API key getSettings returns, web/backend/routes/settings.js *)

\* The numbers of the mask of getSettings.
ApiKeyHead == 8
ApiKeyMaskLen == 24
ApiKeyTail == 4

\* `settings.apiKey ? settings.apiKey.slice(0, 8) + "•".repeat(24) +
\* settings.apiKey.slice(-4) : ""`
MaskedKey(apiKey) ==
  IF apiKey = <<>> THEN <<>>
  ELSE SliceHead(apiKey, ApiKeyHead) \o Repeat(MaskChar, ApiKeyMaskLen)
         \o SliceTail(apiKey, ApiKeyTail)

\* The tenant's Settings row holds a key of some length, or none.
InitGetSettings ==
  /\ db = InitDb
  /\ runs = [p \in Procs |-> IdleRun]
  /\ unin = IdleUninstall
  /\ oce = [attempts |-> [k \in OrderKeys |-> 0], received |-> [k \in OrderKeys |-> 0]]
  /\ cf = IdleCf
  /\ supa = IdleSupa
  /\ \E apiKey \in MaskInputs :
       req = [op |-> "getSettings", pc |-> "mask", apiKey |-> apiKey,
              reply |-> [apiKey |-> <<>>, hasApiKey |-> FALSE]]

\* "Mask API key for frontend display" and the object returned.
GetSettingsReturn ==
  /\ req.op = "getSettings" /\ req.pc = "mask"
  /\ req' = [req EXCEPT !.pc = "return",
                        !.reply = [apiKey |-> MaskedKey(req.apiKey),
                                   hasApiKey |-> req.apiKey # <<>>]]
  /\ UNCHANGED <<db, runs, unin, oce, cf, supa>>

NextGetSettings == GetSettingsReturn

SpecGetSettings == InitGetSettings /\ [][NextGetSettings]_vars

\* The lengths of the segments of the stored key that stand before and after
\* the mask characters of the returned value.
TailShown == IF Len(req.apiKey) < ApiKeyTail THEN Len(req.apiKey) ELSE ApiKeyTail
HeadShown == Len(req.reply.apiKey) - ApiKeyMaskLen - TailShown

\* C30: for every non-empty stored API key, of any length, the apiKey that
\* getSettings returns does not reveal the whole key: some character of the
\* stored key is in neither the first-8 nor the last-4 segment returned.
C30KeyNeverWhole ==
  (req.op = "getSettings" /\ req.pc = "return" /\ req.apiKey # <<>>) =>
    \E i \in 1..Len(req.apiKey) : i > HeadShown /\ i <= Len(req.apiKey) - TailShown

====
